---- MODULE Spec2Model ----
(***************************************************************************)
(* The listing bot of 4Sapte: the conversation state machine               *)
(* (session_manager.py), its JSON store (json_storage.py) and the event    *)
(* handlers that drive it (bot_handlers.py).                               *)
(*                                                                         *)
(* Python dicts are functions whose DOMAIN is the set of keys present.     *)
(* Text that comes from outside (messages, button payloads, catalog names) *)
(* is a tuple of one-character strings; program literals that are only     *)
(* compared for equality (states, log tags, dict keys) are strings.        *)
(* A handler runs atomically between two awaits (asyncio, one thread); an  *)
(* await in the middle of a handler leaves a suspended task in `tasks`.    *)
(***************************************************************************)
EXTENDS Bags, FiniteSets, Integers, Sequences, TLC

VARIABLES
    sessions,   \* users.json["sessions"]: user id -> session dict
    listings,   \* listings/listing_<id>.json: id -> listing dict
    now,        \* latest reading of datetime.now(), in milliseconds
    tasks,      \* bag of handler coroutines suspended at an await
    last,       \* history: what the latest handler step did
    calls,      \* store calls made from threads: caller -> progress of its call
    input,      \* the argument under study, where one is drawn at the start
    output      \* what the operation under study returned for it

vars == <<sessions, listings, now, tasks, last, calls, input, output>>

----------------------------------------------------------------------------
(* Bounds of the model *)

MaxNow == 1      \* the clock readings are 1..MaxNow
MaxTasks == 1    \* coroutines suspended at the same time

Users == {1}

\* two sellers, for what concerns more than one user
Sellers == {1, 2}

----------------------------------------------------------------------------
(* Text helpers *)

Range(s) == {s[i] : i \in DOMAIN s}

StartsWith(s, p) == Len(s) >= Len(p) /\ SubSeq(s, 1, Len(p)) = p

Drop(s, n) == SubSeq(s, n + 1, Len(s))

Whitespace == {" ", "\n", "\t"}

RECURSIVE lstrip(_)
lstrip(s) == IF s # <<>> /\ Head(s) \in Whitespace THEN lstrip(Tail(s)) ELSE s

RECURSIVE rstrip(_)
rstrip(s) ==
    IF s # <<>> /\ s[Len(s)] \in Whitespace
    THEN rstrip(SubSeq(s, 1, Len(s) - 1)) ELSE s

\* str.strip()
strip(s) == rstrip(lstrip(s))

UpperCase ==
    <<"A", "B", "C", "D", "E", "F", "G", "H", "I", "J", "K", "L", "M",
      "N", "O", "P", "Q", "R", "S", "T", "U", "V", "W", "X", "Y", "Z">>

LowerCase ==
    <<"a", "b", "c", "d", "e", "f", "g", "h", "i", "j", "k", "l", "m",
      "n", "o", "p", "q", "r", "s", "t", "u", "v", "w", "x", "y", "z">>

\* str.lower() of one character
LowerChar(c) ==
    IF \E i \in DOMAIN UpperCase : UpperCase[i] = c
    THEN LowerCase[CHOOSE i \in DOMAIN UpperCase : UpperCase[i] = c]
    ELSE c

lower(s) == [i \in DOMAIN s |-> LowerChar(s[i])]

\* str.upper() of one character
UpperChar(c) ==
    IF \E i \in DOMAIN LowerCase : LowerCase[i] = c
    THEN UpperCase[CHOOSE i \in DOMAIN LowerCase : LowerCase[i] = c]
    ELSE c

upper(s) == [i \in DOMAIN s |-> UpperChar(s[i])]

\* index of the first occurrence of character c in s, 0 when there is none
RECURSIVE FindFrom(_, _, _)
FindFrom(s, c, i) ==
    IF i > Len(s) THEN 0 ELSE IF s[i] = c THEN i ELSE FindFrom(s, c, i + 1)

Find(s, c) == FindFrom(s, c, 1)

\* s.find(sub, start) with positions counted from 1: the first position
\* from start on at which sub occurs in s, 0 when there is none
FindSub(s, sub, start) ==
    LET at == {i \in start..(Len(s) + 1 - Len(sub)) :
                  SubSeq(s, i, i + Len(sub) - 1) = sub}
    IN IF at = {} THEN 0 ELSE CHOOSE i \in at : \A j \in at : i <= j

\* s.rfind(c) with positions counted from 1, 0 when c is not in s
RFind(s, c) ==
    LET at == {i \in DOMAIN s : s[i] = c}
    IN IF at = {} THEN 0 ELSE CHOOSE i \in at : \A j \in at : i >= j

\* s.split('\n')
RECURSIVE split_lines(_)
split_lines(s) ==
    LET i == Find(s, "\n")
    IN IF i = 0 THEN <<s>> ELSE <<SubSeq(s, 1, i - 1)>> \o split_lines(Drop(s, i))

\* s.strip(chars)
RECURSIVE strip_chars(_, _)
strip_chars(s, chars) ==
    IF s # <<>> /\ Head(s) \in chars THEN strip_chars(Tail(s), chars)
    ELSE IF s # <<>> /\ s[Len(s)] \in chars
    THEN strip_chars(SubSeq(s, 1, Len(s) - 1), chars)
    ELSE s

\* s.split("_", 1)
split_once(s) ==
    LET i == Find(s, "_")
    IN IF i = 0 THEN <<s>> ELSE <<SubSeq(s, 1, i - 1), Drop(s, i)>>

\* the grave accent, which a string of this language cannot hold, is
\* written "~"; FenceJson is the str that opens a fenced block of JSON and
\* Fence the one that closes it
Tick == "~"

Fence == <<Tick, Tick, Tick>>

FenceJson == Fence \o <<"j", "s", "o", "n">>

\* the characters of the str literals the model uses
Chars(str) ==
    CASE str = "299.99" -> <<"2", "9", "9", ".", "9", "9">>
      [] str = "150,50" -> <<"1", "5", "0", ",", "5", "0">>
      [] str = "0" -> <<"0">>
      [] str = "1000001" -> <<"1", "0", "0", "0", "0", "0", "1">>
      [] str = "abc" -> <<"a", "b", "c">>
      [] str = "1000000" -> <<"1", "0", "0", "0", "0", "0", "0">>
      [] str = "1000000.5" -> <<"1", "0", "0", "0", "0", "0", "0", ".", "5">>
      [] str = "0.01" -> <<"0", ".", "0", "1">>
      [] str = "Apple" -> <<"A", "p", "p", "l", "e">>
      [] str = "iPhone 13 Pro" ->
             <<"i", "P", "h", "o", "n", "e", " ", "1", "3", " ", "P", "r", "o">>
      [] str = "Unknown" -> <<"U", "n", "k", "n", "o", "w", "n">>
      [] str = "Storage" -> <<"S", "t", "o", "r", "a", "g", "e">>
      [] str = "128GB" -> <<"1", "2", "8", "G", "B">>
      [] str = "Product Type" ->
             <<"P", "r", "o", "d", "u", "c", "t", " ", "T", "y", "p", "e">>
      [] str = "Brand: Apple" ->
             <<"B", "r", "a", "n", "d", ":", " ", "A", "p", "p", "l", "e">>
      [] str = "/start" -> <<"/", "s", "t", "a", "r", "t">>
      [] str = "/plaseaza_anunt" ->
             <<"/", "p", "l", "a", "s", "e", "a", "z", "a", "_", "a", "n", "u", "n", "t">>
      [] str = "/help" -> <<"/", "h", "e", "l", "p">>
      [] str = "/cancel" -> <<"/", "c", "a", "n", "c", "e", "l">>
      [] str = "/status" -> <<"/", "s", "t", "a", "t", "u", "s">>
      [] str = "/my_listings" ->
             <<"/", "m", "y", "_", "l", "i", "s", "t", "i", "n", "g", "s">>
      [] str = "/time" -> <<"/", "t", "i", "m", "e">>
      [] str = "choices" -> <<"c", "h", "o", "i", "c", "e", "s">>
      [] str = "message" -> <<"m", "e", "s", "s", "a", "g", "e">>
      [] str = "content" -> <<"c", "o", "n", "t", "e", "n", "t">>
      [] str = "attributes" -> <<"a", "t", "t", "r", "i", "b", "u", "t", "e", "s">>
      [] str = "listing" -> <<"l", "i", "s", "t", "i", "n", "g">>
      [] str = "price_suggestion" ->
             <<"p", "r", "i", "c", "e", "_", "s", "u", "g", "g", "e", "s", "t", "i", "o", "n">>
      [] str = "{}" -> <<"{", "}">>
      [] str = "[1]" -> <<"[", "1", "]">>
      [] str = "1" -> <<"1">>
      [] str = "null" -> <<"n", "u", "l", "l">>
      [] str = "hi" -> <<"h", "i">>
      [] str = "{\"Brand\": \"v\"}" ->
             <<"{", "\"", "B", "r", "a", "n", "d", "\"", ":", " ", "\"", "v", "\"", "}">>
      [] str = "{\"attributes\": [1]}" ->
             <<"{", "\"", "a", "t", "t", "r", "i", "b", "u", "t", "e", "s", "\"", ":", " ",
               "[", "1", "]", "}">>
      [] str = "{\"attributes\": {\"Model\": \"v\"}}" ->
             <<"{", "\"", "a", "t", "t", "r", "i", "b", "u", "t", "e", "s", "\"", ":", " ",
               "{", "\"", "M", "o", "d", "e", "l", "\"", ":", " ", "\"", "v", "\"", "}", "}">>

\* dict.get(key, default)
Get(d, k, default) == IF k \in DOMAIN d THEN d[k] ELSE default

EmptyDict == [k \in {} |-> ""]

----------------------------------------------------------------------------
(* ConversationState *)

IDLE == "idle"
CATEGORY_SELECTION == "category_selection"
SUBCATEGORY_SELECTION == "subcategory_selection"
PRODUCT_INPUT == "product_input"
PROCESSING_PRODUCT == "processing_product"
CONFIRMATION == "confirmation"
DESCRIPTION_INPUT == "description_input"
PRICE_INPUT == "price_input"
COMPLETED == "completed"

----------------------------------------------------------------------------
(* Category catalog: the content of shop_categories.json as loaded *)

Tv == <<"T", "v">>
Pc == <<"P", "c">>
Lcd == <<"L", "c", "d">>
Mac == <<"M", "a", "c">>
Brand == <<"B", "r", "a", "n", "d">>
Model == <<"M", "o", "d", "e", "l">>

Catalog ==
    << [category |-> Tv,
        subcategories |-> << [name |-> Lcd, attributes |-> <<Brand, Model>>] >>],
       [category |-> Pc,
        subcategories |-> << [name |-> Mac, attributes |-> <<Brand>>] >>] >>

\* _load_categories: the categories of the file, none when reading or
\* parsing it raised
load_categories(file, readable) == IF readable THEN file ELSE <<>>

get_categories == load_categories(Catalog, TRUE)

\* a lookup that compares the names as they are written
category_by_name_case_sensitive(categories, category_name) ==
    LET hits == SelectSeq(categories, LAMBDA cat : cat.category = category_name)
    IN IF hits = <<>> THEN <<>> ELSE <<Head(hits)>>

\* Optional results are sequences of length 0 (None) or 1.
\* get_category_by_name over the categories that were loaded
category_by_name(categories, category_name) ==
    LET hits == SelectSeq(categories,
                          LAMBDA cat : lower(cat.category) = lower(category_name))
    IN IF hits = <<>> THEN <<>> ELSE <<Head(hits)>>

\* get_subcategory_by_name over the categories that were loaded
subcategory_by_name(categories, category_name, subcategory_name) ==
    LET category == category_by_name(categories, category_name)
    IN IF category = <<>> THEN <<>>
       ELSE LET hits == SelectSeq(category[1].subcategories,
                            LAMBDA subcat : lower(subcat.name) = lower(subcategory_name))
            IN IF hits = <<>> THEN <<>> ELSE <<Head(hits)>>

\* get_expected_attributes over the categories that were loaded
attributes_by_name(categories, category_name, subcategory_name) ==
    LET subcategory == subcategory_by_name(categories, category_name, subcategory_name)
    IN IF subcategory = <<>> THEN <<>> ELSE subcategory[1].attributes

get_category_by_name(category_name) == category_by_name(get_categories, category_name)

get_subcategory_by_name(category_name, subcategory_name) ==
    subcategory_by_name(get_categories, category_name, subcategory_name)

get_expected_attributes(category_name, subcategory_name) ==
    attributes_by_name(get_categories, category_name, subcategory_name)

----------------------------------------------------------------------------
(* JSONStorage.  The updated_at stamp of a session is written and never    *)
(* read by any code path; it is left out of the session dict.              *)

\* an update that writes a store holding the user's record alone
update_user_session_alone(S, user_id, fields) ==
    LET session == IF user_id \in DOMAIN S THEN S[user_id] ELSE EmptyDict
    IN [v \in {user_id} |-> fields @@ session]

\* update_user_session: fields holds the keyword arguments that are not None
update_user_session(S, user_id, fields) ==
    LET session == IF user_id \in DOMAIN S THEN S[user_id] ELSE EmptyDict
    IN [v \in DOMAIN S \cup {user_id} |->
           IF v = user_id THEN fields @@ session ELSE S[v]]

clear_user_session(S, user_id) ==
    [v \in DOMAIN S \ {user_id} |-> S[v]]

\* save_product at clock reading t: the file listing_<t>.json is (over)written
save_product(L, t, user_id, username, category, subcategory, product_name, attributes, price) ==
    (t :> [id |-> t, user_id |-> user_id, username |-> username,
           category |-> category, subcategory |-> subcategory,
           product_name |-> product_name, attributes |-> attributes,
           price |-> price, status |-> "active"]) @@ L

----------------------------------------------------------------------------
(* SessionManager: each operation yields [ok, store, log]; log is the      *)
(* sequence of action tags it hands to log_user_action.                    *)

Result(ok, store, log) == [ok |-> ok, store |-> store, log |-> log]

\* a start command that never finds the session active
is_session_active_never(S, user_id) == FALSE

is_session_active(S, user_id) ==
    user_id \in DOMAIN S /\ Get(S[user_id], "state", "None") # IDLE

start_new_session(S, user_id) ==
    Result(TRUE,
           update_user_session(S, user_id, [state |-> CATEGORY_SELECTION]),
           <<"session_started">>)

update_session_state(S, user_id, state) ==
    Result(TRUE, update_user_session(S, user_id, [state |-> state]), <<>>)

set_category(S, user_id, category) ==
    IF get_category_by_name(category) = <<>>
    THEN Result(FALSE, S, <<>>)
    ELSE Result(TRUE,
                update_user_session(S, user_id,
                    [category |-> category, state |-> SUBCATEGORY_SELECTION]),
                <<"category_selected">>)

\* a set_subcategory that takes any name once the session has a category
set_subcategory_unchecked(S, user_id, subcategory) ==
    IF user_id \notin DOMAIN S \/ "category" \notin DOMAIN S[user_id]
    THEN Result(FALSE, S, <<>>)
    ELSE Result(TRUE,
                update_user_session(S, user_id,
                    [subcategory |-> subcategory, state |-> PRODUCT_INPUT]),
                <<"subcategory_selected">>)

set_subcategory(S, user_id, subcategory) ==
    IF user_id \notin DOMAIN S \/ "category" \notin DOMAIN S[user_id]
    THEN Result(FALSE, S, <<>>)
    ELSE IF get_subcategory_by_name(S[user_id].category, subcategory) = <<>>
    THEN Result(FALSE, S, <<>>)
    ELSE Result(TRUE,
                update_user_session(S, user_id,
                    [subcategory |-> subcategory, state |-> PRODUCT_INPUT]),
                <<"subcategory_selected">>)

\* a set_product_name that stores the name and leaves the state as it was
set_product_name_keeps_state(S, user_id, product_name) ==
    Result(TRUE,
           update_user_session(S, user_id, [product_name |-> product_name]),
           <<"product_name_entered">>)

set_product_name(S, user_id, product_name) ==
    Result(TRUE,
           update_user_session(S, user_id,
               [product_name |-> product_name, state |-> PROCESSING_PRODUCT]),
           <<"product_name_entered">>)

set_extracted_data(S, user_id, extracted_data) ==
    Result(TRUE,
           update_user_session(S, user_id,
               [extracted_data |-> extracted_data, state |-> CONFIRMATION]),
           <<"product_data_extracted">>)

set_description(S, user_id, description) ==
    IF user_id \notin DOMAIN S
    THEN Result(FALSE, S, <<>>)
    ELSE LET extracted_data == Get(S[user_id], "extracted_data", EmptyDict)
             listing == Get(extracted_data, "listing", EmptyDict)
             with_description ==
                 ("listing" :> (("description" :> description) @@ listing))
                     @@ extracted_data
         IN Result(TRUE,
                   update_user_session(S, user_id,
                       [extracted_data |-> with_description, state |-> PRICE_INPUT]),
                   <<"description_entered">>)

\* a cancel that logs and forgets to clear the record
cancel_listing_keeps(S, user_id) ==
    Result(TRUE, S, IF user_id \in DOMAIN S THEN <<"listing_cancelled">> ELSE <<>>)

cancel_listing(S, user_id) ==
    Result(TRUE,
           clear_user_session(S, user_id),
           IF user_id \in DOMAIN S THEN <<"listing_cancelled">> ELSE <<>>)

\* complete_listing at clock reading t; product_id 0 stands for None
\* a completion that keeps the record and marks it completed
complete_listing_marks(S, L, user_id, username, price, t) ==
    IF user_id \in DOMAIN S /\ "extracted_data" \in DOMAIN S[user_id]
    THEN [product_id |-> t,
          store |-> update_user_session(S, user_id, [state |-> COMPLETED]),
          listings |-> save_product(L, t, user_id, username, <<>>, <<>>, <<>>,
                                    EmptyDict, price),
          log |-> <<"listing_completed">>]
    ELSE [product_id |-> 0, store |-> S, listings |-> L, log |-> <<>>]

complete_listing(S, L, user_id, username, price, t) ==
    LET none == [product_id |-> 0, store |-> S, listings |-> L, log |-> <<>>]
    IN IF user_id \notin DOMAIN S THEN none
       ELSE LET session == S[user_id]
                extracted_data == Get(session, "extracted_data", EmptyDict)
                Unknown == <<"U", "n", "k", "n", "o", "w", "n">>
            IN IF DOMAIN extracted_data = {} THEN none
               ELSE LET saved ==
                            save_product(L, t, user_id, username,
                                Get(extracted_data, "category",
                                    Get(session, "category", Unknown)),
                                Get(extracted_data, "subcategory",
                                    Get(session, "subcategory", Unknown)),
                                Get(extracted_data, "product_name",
                                    Get(session, "product_name", Unknown)),
                                Get(extracted_data, "attributes", EmptyDict),
                                price)
                    IN IF t # 0
                       THEN [product_id |-> t,
                             store |-> clear_user_session(S, user_id),
                             listings |-> saved,
                             log |-> <<"listing_completed">>]
                       ELSE [none EXCEPT !.listings = saved]

----------------------------------------------------------------------------
(* DeepSeekAPI.extract_product_attributes, by the shape of its result.     *)
(* outcome is what the transport and the model's answer amount to: "json"  *)
(* (the content parsed), "fallback" (it did not, manual extraction) or     *)
(* "failure" (status, content type, empty content, exception).             *)

NOT_FOUND == <<"_", "N", "o", "t", " ", "f", "o", "u", "n", "d", "_">>
FoundValue == <<"v">>
ModelListing == [title |-> <<"t">>, description |-> <<"d">>]

Outcomes == {"json", "failure"}

extract_product_attributes(product_name, category, subcategory, expected_attributes, outcome) ==
    CASE outcome = "json" ->
           [success |-> TRUE, product_name |-> product_name,
            category |-> category, subcategory |-> subcategory,
            attributes |-> [a \in Range(expected_attributes) |-> FoundValue],
            listing |-> ModelListing]
      [] outcome = "fallback" ->
           [success |-> TRUE, product_name |-> product_name,
            category |-> category, subcategory |-> subcategory,
            attributes |-> [a \in Range(expected_attributes) |-> NOT_FOUND]]
      [] OTHER ->
           [success |-> FALSE, error |-> "error", product_name |-> product_name]

----------------------------------------------------------------------------
(* DeepSeekAPI._validate_extracted_data.  A JSON value carries its Python  *)
(* type: Str(chars) is a str, Number(n) an int.  The raw data is a dict in *)
(* insertion order: a sequence of <<key, value>> pairs with distinct keys. *)

Str(chars) == [type |-> "str", chars |-> chars]

Number(n) == [type |-> "int", n |-> n]

Keys(data) == {data[i][1] : i \in DOMAIN data}

\* data[key], for a key that is in data
Lookup(data, key) == data[CHOOSE i \in DOMAIN data : data[i][1] = key][2]

\* ['', 'n/a', 'not available', 'none', 'unknown']
BlankValues ==
    { <<>>, <<"n", "/", "a">>,
      <<"n", "o", "t", " ", "a", "v", "a", "i", "l", "a", "b", "l", "e">>,
      <<"n", "o", "n", "e">>, <<"u", "n", "k", "n", "o", "w", "n">> }

\* a cleaning that compares the trimmed value as it is written
clean_value_case_sensitive(value) ==
    IF value.type = "str"
    THEN IF strip(value.chars) \in BlankValues
         THEN Str(NOT_FOUND) ELSE Str(strip(value.chars))
    ELSE value

\* a cleaning that compares the value as it came, before trimming it
clean_value_checks_raw(value) ==
    IF value.type = "str"
    THEN IF lower(value.chars) \in BlankValues
         THEN Str(NOT_FOUND) ELSE Str(strip(value.chars))
    ELSE value

\* the cleaning of the value of an expected attribute
clean_value(value) ==
    IF value.type = "str"
    THEN IF lower(strip(value.chars)) \in BlankValues
         THEN Str(NOT_FOUND) ELSE Str(strip(value.chars))
    ELSE value

\* the second loop: the other keys of data, in order; a str value is kept
\* unless an attribute kept so far has the same value
RECURSIVE add_extracted(_, _)
add_extracted(validated, pairs) ==
    IF pairs = <<>> THEN validated
    ELSE LET key == Head(pairs)[1]
             value == Head(pairs)[2]
         IN IF key \notin DOMAIN validated /\ value.type = "str"
               /\ (Str(strip(value.chars)) \notin Range(validated)
                   \/ strip(value.chars) = NOT_FOUND)
            THEN add_extracted(validated @@ (key :> Str(strip(value.chars))),
                               Tail(pairs))
            ELSE add_extracted(validated, Tail(pairs))

\* a validation whose first loop leaves out the attributes data does not have
validate_present_only(data, expected_attributes) ==
    add_extracted([a \in Range(expected_attributes) \cap Keys(data) |->
                      clean_value(Lookup(data, a))], data)

validate_extracted_data(data, expected_attributes) ==
    add_extracted([a \in Range(expected_attributes) |->
                      IF a \in Keys(data) THEN clean_value(Lookup(data, a))
                      ELSE Str(NOT_FOUND)], data)

\* the keys of a list, each once, in the order of their first occurrence
RECURSIVE FirstOccurrences(_)
FirstOccurrences(keys) ==
    IF keys = <<>> THEN <<>>
    ELSE LET front == FirstOccurrences(SubSeq(keys, 1, Len(keys) - 1))
             key == keys[Len(keys)]
         IN IF key \in Range(front) THEN front ELSE Append(front, key)

\* the keys of the validated dict in insertion order: the expected
\* attributes as the first loop inserts them, then the keys the second loop
\* adds, in the order of data
validated_keys(data, expected_attributes) ==
    LET validated == validate_extracted_data(data, expected_attributes)
        Added(pair) == pair[1] \in DOMAIN validated
                          /\ pair[1] \notin Range(expected_attributes)
        added == SelectSeq(data, Added)
    IN FirstOccurrences(expected_attributes)
           \o [i \in DOMAIN added |-> added[i][1]]

\* the validated dict as the sequence of its items
validated_items(data, expected_attributes) ==
    LET validated == validate_extracted_data(data, expected_attributes)
        keys == validated_keys(data, expected_attributes)
    IN [i \in DOMAIN keys |-> <<keys[i], validated[keys[i]]>>]

----------------------------------------------------------------------------
(* DeepSeekAPI._calculate_confidence.  attributes is the dict as the       *)
(* sequence of its items.  The result is the float in hundredths: the sum  *)
(* is kept as a fraction over 100 * total_attrs and rounded at the end     *)
(* (round(x, 2) meets no tie while the dict has fewer than 8 items).       *)

\* sub in s
Contains(s, sub) ==
    \E i \in 1..(Len(s) + 1 - Len(sub)) : SubSeq(s, i, i + Len(sub) - 1) = sub

\* str(value), of a str or of an int between 0 and 9
ToStr(value) ==
    IF value.type = "str" THEN value.chars
    ELSE <<(<<"0", "1", "2", "3", "4", "5", "6", "7", "8", "9">>)[value.n + 1]>>

\* ['_Not found_', 'Unknown', 'N/A', '']
NotFoundTexts == {NOT_FOUND, Chars("Unknown"), <<"N", "/", "A">>, <<>>}

Found(value) == ToStr(value) \notin NotFoundTexts

ProductType == Chars("Product Type")

\* ['Brand', 'Model', 'Product Type']
critical_attrs == <<Brand, Model, ProductType>>

\* ['GB', 'MHz', 'inches', 'W', 'Hz', 'mAh', 'MP', 'dB', 'mm', 'kg']
technical_indicators ==
    { <<"G", "B">>, <<"M", "H", "z">>, <<"i", "n", "c", "h", "e", "s">>, <<"W">>,
      <<"H", "z">>, <<"m", "A", "h">>, <<"M", "P">>, <<"d", "B">>, <<"m", "m">>,
      <<"k", "g">> }

\* the patterns after pattern.replace('[0-9]', '\\d'), looked for as plain
\* substrings: 'v\d', '\d+GB', '\d+MHz', '\d+"', '\d+W', 'Pro', 'Max', 'Plus'
specific_patterns ==
    { <<"v", "\\", "d">>, <<"\\", "d", "+", "G", "B">>,
      <<"\\", "d", "+", "M", "H", "z">>, <<"\\", "d", "+", "\"">>,
      <<"\\", "d", "+", "W">>, <<"P", "r", "o">>, <<"M", "a", "x">>,
      <<"P", "l", "u", "s">> }

\* the critical names that some key contains and whose value was found
critical_found(attributes) ==
    Cardinality({i \in DOMAIN critical_attrs :
        \E j \in DOMAIN attributes :
            /\ Contains(lower(attributes[j][1]), lower(critical_attrs[i]))
            /\ Found(attributes[j][2])})

found_attrs(attributes) ==
    Cardinality({j \in DOMAIN attributes : Found(attributes[j][2])})

detailed_attrs(attributes) ==
    Cardinality({j \in DOMAIN attributes :
        \E indicator \in technical_indicators :
            Contains(ToStr(attributes[j][2]), indicator)})

specific_count(attributes) ==
    Cardinality({j \in DOMAIN attributes :
        \E pattern \in specific_patterns :
            Contains(ToStr(attributes[j][2]), pattern)})

\* the items whose key holds 'brand' and whose value was found
BrandItems(attributes) ==
    {j \in DOMAIN attributes :
        /\ Contains(lower(attributes[j][1]), lower(Brand))
        /\ Found(attributes[j][2])}

\* the values that hold the first brand value, 0 when there is no brand
consistent_mentions(attributes) ==
    IF BrandItems(attributes) = {} THEN 0
    ELSE LET first == CHOOSE j \in BrandItems(attributes) :
                          \A k \in BrandItems(attributes) : j <= k
             brand_value == lower(ToStr(attributes[first][2]))
         IN Cardinality({j \in DOMAIN attributes :
                Contains(lower(ToStr(attributes[j][2])), brand_value)})

\* the sum of the five bonuses, in hundredths
confidence_boosters(attributes) ==
    LET critical == critical_found(attributes)
        detailed == detailed_attrs(attributes)
        specific == specific_count(attributes)
        found == found_attrs(attributes)
        total == Len(attributes)
    IN (IF critical >= 3 THEN 30 ELSE IF critical >= 2 THEN 20
        ELSE IF critical >= 1 THEN 10 ELSE 0)
       + (IF detailed >= 3 THEN 20 ELSE IF detailed >= 2 THEN 15
          ELSE IF detailed >= 1 THEN 10 ELSE 0)
       + (IF specific >= 2 THEN 15 ELSE IF specific >= 1 THEN 10 ELSE 0)
       + (IF consistent_mentions(attributes) >= 2 THEN 10 ELSE 0)
       + (IF found * 10 >= total * 9 THEN 5
          ELSE IF found * 10 >= total * 8 THEN 3 ELSE 0)

Min(a, b) == IF a <= b THEN a ELSE b

Max(a, b) == IF a >= b THEN a ELSE b

\* n / d rounded to the nearest integer
RoundDiv(n, d) == (2 * n + d) \div (2 * d)

\* a confidence whose sum is not capped at 1.0
calculate_confidence_uncapped(attributes) ==
    LET total == Len(attributes)
        found == found_attrs(attributes)
        final == found * 100 + confidence_boosters(attributes) * total
    IN IF total = 0 THEN 0
       ELSE RoundDiv(IF critical_found(attributes) >= 2 /\ found * 10 >= total * 6
                     THEN Max(final, 90 * total) ELSE final, total)

\* a confidence without the minimum guarantee
calculate_confidence_unfloored(attributes) ==
    LET total == Len(attributes)
        found == found_attrs(attributes)
        final == Min(found * 100 + confidence_boosters(attributes) * total,
                     100 * total)
    IN IF total = 0 THEN 0 ELSE RoundDiv(final, total)

calculate_confidence(attributes) ==
    LET total == Len(attributes)
        found == found_attrs(attributes)
        final == Min(found * 100 + confidence_boosters(attributes) * total,
                     100 * total)
    IN IF total = 0 THEN 0
       ELSE RoundDiv(IF critical_found(attributes) >= 2 /\ found * 10 >= total * 6
                     THEN Max(final, 90 * total) ELSE final, total)

----------------------------------------------------------------------------
(* DeepSeekAPI.extract_product_attributes, statement by statement, on the  *)
(* response of the one session.post it makes.  A response is a record      *)
(* [raises, status, body]: raises names the exception the request raised   *)
(* ("" when it returned), body is what response.json() gives, a JSON value *)
(* or ContentTypeError.  The confidence of a result is not modelled here.  *)

JDict(pairs) == [type |-> "dict", pairs |-> pairs]

JList(elems) == [type |-> "list", elems |-> elems]

None == [type |-> "NoneType"]

ContentTypeError == [type |-> "ContentTypeError"]

\* d.get(key, default) of a dict
DictGet(d, key, default) ==
    IF key \in Keys(d.pairs) THEN Lookup(d.pairs, key) ELSE default

\* not value
Falsy(value) ==
    CASE value.type = "NoneType" -> TRUE
      [] value.type = "str" -> value.chars = <<>>
      [] value.type = "int" -> value.n = 0
      [] value.type = "list" -> value.elems = <<>>
      [] value.type = "dict" -> value.pairs = <<>>

\* json.loads of the texts the model uses; a text that is not JSON raises
\* JSONDecodeError
json_loads(text) ==
    CASE text = Chars("{}") -> [exc |-> "", value |-> JDict(<<>>)]
      [] text = Chars("[1]") -> [exc |-> "", value |-> JList(<<Number(1)>>)]
      [] text = Chars("1") -> [exc |-> "", value |-> Number(1)]
      [] text = Chars("null") -> [exc |-> "", value |-> None]
      [] text = Chars("{\"Brand\": \"v\"}") ->
             [exc |-> "", value |-> JDict(<< <<Brand, Str(<<"v">>)>> >>)]
      [] text = Chars("{\"attributes\": [1]}") ->
             [exc |-> "",
              value |-> JDict(<< <<Chars("attributes"), JList(<<Number(1)>>)>> >>)]
      [] text = Chars("{\"attributes\": {\"Model\": \"v\"}}") ->
             [exc |-> "",
              value |-> JDict(<< <<Chars("attributes"),
                                   JDict(<< <<Model, Str(<<"v">>)>> >>)>> >>)]
      [] OTHER -> [exc |-> "JSONDecodeError", value |-> None]

\* str(e) of the exceptions the model raises; a timeout has no text
StrOf(exc) == IF exc = "TimeoutError" THEN "" ELSE exc

Failure(product_name, error) ==
    [success |-> FALSE, error |-> error, product_name |-> product_name]

Returns(result) == [exc |-> "", result |-> result]

Raises(exc) == [exc |-> exc, result |-> <<>>]

\* the first line of content that holds attr, whatever the case, and a
\* colon: the text after its first colon, trimmed and without the quotes
\* around it; the sentinel when there is no such line
manual_value(content, attr) ==
    LET lines == split_lines(content)
        at == {i \in DOMAIN lines :
                  /\ Contains(lower(lines[i]), lower(attr))
                  /\ ":" \in Range(lines[i])}
    IN IF at = {} THEN NOT_FOUND
       ELSE LET line == lines[CHOOSE i \in at : \A j \in at : i <= j]
            IN strip_chars(strip(Drop(line, Find(line, ":"))), {"\"", "'"})

\* DeepSeekAPI._manual_attribute_extraction
manual_attribute_extraction(content, expected_attributes) ==
    [a \in Range(expected_attributes) |-> Str(manual_value(content, a))]

\* the result built from the object that json.loads gave
parsed_result(product_name, category, subcategory, expected_attributes, extracted_data) ==
    IF extracted_data.type # "dict" THEN Raises("AttributeError")
    ELSE LET attributes ==
                 DictGet(extracted_data, Chars("attributes"), extracted_data)
         IN IF attributes.type # "dict" THEN Raises("AttributeError")
            ELSE Returns(
                   [success |-> TRUE, product_name |-> product_name,
                    category |-> category, subcategory |-> subcategory,
                    attributes |->
                        validate_extracted_data(attributes.pairs, expected_attributes),
                    confidence |->
                        calculate_confidence(
                            validated_items(attributes.pairs, expected_attributes)),
                    price_suggestion |->
                        DictGet(extracted_data, Chars("price_suggestion"), JDict(<<>>)),
                    listing |->
                        DictGet(extracted_data, Chars("listing"), JDict(<<>>))])

\* DeepSeekAPI, lines 67-104: the content parsed as JSON, or the manual
\* fallback with confidence 0.5
parse_content(product_name, category, subcategory, expected_attributes, content) ==
    IF content.type # "str" THEN Raises("TypeError")
    ELSE LET loaded == json_loads(content.chars)
         IN IF loaded.exc # ""
            THEN Returns([success |-> TRUE, product_name |-> product_name,
                          category |-> category, subcategory |-> subcategory,
                          attributes |->
                              manual_attribute_extraction(content.chars,
                                                          expected_attributes),
                          confidence |-> 50, note |-> "fallback"])
            ELSE parsed_result(product_name, category, subcategory,
                               expected_attributes, loaded.value)

\* AIModelClient, lines 66-75: the text between the opening fence and the
\* next fence, trimmed, or else the text from the first '{' to the last '}'
isolate_json(raw) ==
    LET fence == FindSub(raw, FenceJson, 1)
    IN IF fence # 0
       THEN LET start == fence + Len(FenceJson)
                end == FindSub(raw, Fence, start)
            IN IF end # 0 THEN strip(SubSeq(raw, start, end - 1)) ELSE raw
       ELSE LET first_brace == Find(raw, "{")
                last_brace == RFind(raw, "}")
            IN IF first_brace # 0 /\ last_brace # 0 /\ last_brace > first_brace
               THEN SubSeq(raw, first_brace, last_brace) ELSE raw

\* AIModelClient, lines 65-116: the isolated text parsed as JSON; the class
\* has no _manual_attribute_extraction, so the fallback raises
\* AttributeError, which its own "except Exception" turns into a failure
ai_parse_content(product_name, category, subcategory, expected_attributes, content) ==
    IF content.type # "str" THEN Raises("TypeError")
    ELSE LET loaded == json_loads(isolate_json(content.chars))
         IN IF loaded.exc # ""
            THEN Returns(Failure(product_name,
                     "JSON parse failed and fallback extraction failed"))
            ELSE parsed_result(product_name, category, subcategory,
                               expected_attributes, loaded.value)

\* lines 53-124: what the body of the two "async with" returns or raises
read_response(product_name, category, subcategory, expected_attributes, response) ==
    IF response.status # 200
    THEN Returns(Failure(product_name, "API request failed"))
    ELSE LET result == response.body
         IN IF result.type = "ContentTypeError"
            THEN Returns(Failure(product_name, "API returned HTML instead of JSON"))
            ELSE IF result.type # "dict" THEN Raises("AttributeError")
            ELSE LET choices == DictGet(result, Chars("choices"),
                                        JList(<<JDict(<<>>)>>))
                 IN IF choices.type # "list" THEN Raises("TypeError")
                    ELSE IF choices.elems = <<>> THEN Raises("IndexError")
                    ELSE IF choices.elems[1].type # "dict" THEN Raises("AttributeError")
                    ELSE LET message == DictGet(choices.elems[1], Chars("message"),
                                                JDict(<<>>))
                         IN IF message.type # "dict" THEN Raises("AttributeError")
                            ELSE LET content == DictGet(message, Chars("content"),
                                                        Str(<<>>))
                                 IN IF Falsy(content)
                                    THEN Returns(Failure(product_name,
                                             "Empty response content from API"))
                                    ELSE parse_content(product_name, category,
                                             subcategory, expected_attributes, content)

\* an extraction without the outer "except Exception": what is raised in
\* the body leaves the call
request_extraction_uncaught(product_name, category, subcategory, expected_attributes, response) ==
    LET body == IF response.raises # "" THEN Raises(response.raises)
                ELSE read_response(product_name, category, subcategory,
                                   expected_attributes, response)
    IN [requests |-> 1, raised |-> body.exc, result |-> body.result]

\* lines 23-132: one session.post; whatever the body raises is caught by
\* the outer "except Exception" and returned as a failure with str(e)
request_extraction(product_name, category, subcategory, expected_attributes, response) ==
    LET body == IF response.raises # "" THEN Raises(response.raises)
                ELSE read_response(product_name, category, subcategory,
                                   expected_attributes, response)
    IN [requests |-> 1, raised |-> "",
        result |-> IF body.exc # "" THEN Failure(product_name, StrOf(body.exc))
                   ELSE body.result]

----------------------------------------------------------------------------
(* BotHandlers: price parsing *)

MIN_NAME_LEN == 3
MIN_DESCRIPTION_LEN == 10
MAX_DESCRIPTION_LEN == 500
MAX_PRICE == 1000000

Digits == {"0", "1", "2", "3", "4", "5", "6", "7", "8", "9"}

DigitVal(c) ==
    CASE c = "0" -> 0 [] c = "1" -> 1 [] c = "2" -> 2 [] c = "3" -> 3
      [] c = "4" -> 4 [] c = "5" -> 5 [] c = "6" -> 6 [] c = "7" -> 7
      [] c = "8" -> 8 [] c = "9" -> 9

\* str.replace(',', '.')
replace_comma(s) == [i \in DOMAIN s |-> IF s[i] = "," THEN "." ELSE s[i]]

NumChars == Digits \cup {".", ","}

\* re.search(r'[\d.,]+', s): the first maximal run, <<>> when there is none
\* the greedy match that starts at position i
RunFrom(s, i) ==
    LET stops == {k \in i..Len(s) : s[k] \notin NumChars}
        end == IF stops = {} THEN Len(s) + 1
               ELSE CHOOSE k \in stops : \A m \in stops : k <= m
    IN SubSeq(s, i, end - 1)

\* the leftmost position from i on where a match can start, 0 when none
FirstNumChar(s, i) ==
    LET starts == {k \in i..Len(s) : s[k] \in NumChars}
    IN IF starts = {} THEN 0 ELSE CHOOSE k \in starts : \A m \in starts : k <= m

price_match(s) ==
    LET i == FirstNumChar(s, 1) IN IF i = 0 THEN <<>> ELSE RunFrom(s, i)

RECURSIVE DigitsValue(_)
DigitsValue(s) ==
    IF s = <<>> THEN 0
    ELSE 10 * DigitsValue(SubSeq(s, 1, Len(s) - 1)) + DigitVal(s[Len(s)])

RECURSIVE Pow10(_)
Pow10(n) == IF n = 0 THEN 1 ELSE 10 * Pow10(n - 1)

\* a decimal n/d with d a power of ten, without trailing zeros
RECURSIVE Normal(_, _)
Normal(n, d) ==
    IF d > 1 /\ n % 10 = 0 THEN Normal(n \div 10, d \div 10) ELSE <<n, d>>

\* float(run) for a run of digits and periods: <<>> stands for ValueError
to_float(run) ==
    LET dots == {i \in DOMAIN run : run[i] = "."}
        digits == SelectSeq(run, LAMBDA c : c \in Digits)
    IN IF Cardinality(dots) > 1 \/ digits = <<>> THEN <<>>
       ELSE LET dot == IF dots = {} THEN Len(run) ELSE CHOOSE i \in dots : TRUE
            IN <<Normal(DigitsValue(digits), Pow10(Len(run) - dot))>>

\* the validation with the lower limit included: price < 0 for price <= 0
parse_price_from_zero(price_text) ==
    LET m == price_match(replace_comma(price_text))
    IN IF m = <<>> THEN <<>>
       ELSE LET price == to_float(replace_comma(m))
            IN IF price = <<>> THEN <<>>
               ELSE IF price[1][1] < 0 \/ price[1][1] > MAX_PRICE * price[1][2]
               THEN <<>>
               ELSE price

\* the validation of process_price_input: <<price>> when accepted, else <<>>
parse_price(price_text) ==
    LET m == price_match(replace_comma(price_text))
    IN IF m = <<>> THEN <<>>
       ELSE LET price == to_float(replace_comma(m))
            IN IF price = <<>> THEN <<>>
               ELSE IF price[1][1] <= 0 \/ price[1][1] > MAX_PRICE * price[1][2]
               THEN <<>>
               ELSE price

----------------------------------------------------------------------------
(* BotHandlers.  A handler step yields [store, op, log, spawn]: the store  *)
(* it leaves, a tag naming the branch it took, the action-log tags it      *)
(* emitted and the coroutines it left suspended at an await (0 or 1).      *)

CAT_PREFIX == <<"c", "a", "t", "_">>
SUBCAT_PREFIX == <<"s", "u", "b", "c", "a", "t", "_">>
BACK_TO_CATEGORIES == <<"b", "a", "c", "k", "_", "t", "o", "_", "c", "a", "t", "e", "g", "o", "r", "i", "e", "s">>
CANCEL_LISTING == <<"c", "a", "n", "c", "e", "l", "_", "l", "i", "s", "t", "i", "n", "g">>
CONFIRM_PRODUCT == <<"c", "o", "n", "f", "i", "r", "m", "_", "p", "r", "o", "d", "u", "c", "t">>
REJECT_PRODUCT == <<"r", "e", "j", "e", "c", "t", "_", "p", "r", "o", "d", "u", "c", "t">>

\* the payloads show_category_selection and show_subcategory_selection encode
cat_payload(cat_name) == CAT_PREFIX \o cat_name

subcat_payload(category_name, subcat_name) ==
    SUBCAT_PREFIX \o category_name \o <<"_">> \o subcat_name

Step(store, op, log, spawn) ==
    [store |-> store, op |-> op, log |-> log, spawn |-> spawn]

Task(kind, user_id, product_name, category, subcategory, price) ==
    [kind |-> kind, user |-> user_id, product_name |-> product_name,
     category |-> category, subcategory |-> subcategory, price |-> price]

NoPrice == <<0, 1>>

handle_plaseaza_anunt(S, user_id) ==
    IF is_session_active(S, user_id)
    THEN Step(S, "start_rejected", <<>>, <<>>)
    ELSE LET r == start_new_session(S, user_id)
         IN Step(r.store, "session_started", r.log, <<>>)

request_description(S, user_id) ==
    IF user_id \notin DOMAIN S
    THEN Step(S, "confirm_no_session", <<>>, <<>>)
    ELSE LET r == update_session_state(S, user_id, DESCRIPTION_INPUT)
         IN Step(r.store, "product_confirmed", r.log, <<>>)

\* data[4:], the category name of a "cat_" payload
decode_category(data) == Drop(data, 4)

\* data[7:].split("_", 1), the parts of a "subcat_" payload
decode_subcategory(data) == split_once(Drop(data, 7))

handle_callback_query(S, user_id, data) ==
    IF StartsWith(data, CAT_PREFIX)
    THEN LET r == set_category(S, user_id, decode_category(data))
         IN Step(r.store, IF r.ok THEN "category_selected" ELSE "category_refused",
                 r.log, <<>>)
    ELSE IF StartsWith(data, SUBCAT_PREFIX)
    THEN LET parts == decode_subcategory(data)
         IN IF Len(parts) = 2
            THEN LET r == set_subcategory(S, user_id, parts[2])
                 IN Step(r.store,
                         IF r.ok THEN "subcategory_selected" ELSE "subcategory_refused",
                         r.log, <<>>)
            ELSE Step(S, "callback_ignored", <<>>, <<>>)
    ELSE IF data = BACK_TO_CATEGORIES
    THEN IF user_id \in DOMAIN S
         THEN LET r == update_session_state(S, user_id, CATEGORY_SELECTION)
              IN Step(r.store, "back_to_categories", r.log, <<>>)
         ELSE Step(S, "back_no_session", <<>>, <<>>)
    ELSE IF data = CANCEL_LISTING
    THEN LET r == cancel_listing(S, user_id)
         IN Step(r.store, "cancel_button", r.log, <<>>)
    ELSE IF data = CONFIRM_PRODUCT
    THEN request_description(S, user_id)
    ELSE IF data = REJECT_PRODUCT
    THEN IF user_id \in DOMAIN S
         THEN LET r == update_session_state(S, user_id, PRODUCT_INPUT)
              IN Step(r.store, "product_rejected", r.log, <<>>)
         ELSE Step(S, "reject_no_session", <<>>, <<>>)
    ELSE Step(S, "callback_ignored", <<>>, <<>>)

handle_cancel_command(S, user_id) ==
    IF is_session_active(S, user_id)
    THEN LET r == cancel_listing(S, user_id)
         IN Step(r.store, "cancel_command", r.log, <<>>)
    ELSE Step(S, "cancel_no_session", <<>>, <<>>)

\* process_product_name without the length validation
process_product_name_unvalidated(S, user_id, product_name) ==
    LET session == S[user_id]
        r == set_product_name(S, user_id, product_name)
    IN IF {"category", "subcategory"} \subseteq DOMAIN session
       THEN Step(r.store, "product_name_entered", r.log,
                 << Task("extract", user_id, product_name,
                         session.category, session.subcategory, NoPrice) >>)
       ELSE Step(r.store, "product_name_error", r.log, <<>>)

\* up to the await of the progress message and of the extraction call
process_product_name(S, user_id, product_name) ==
    LET session == S[user_id]
    IN IF Len(strip(product_name)) < MIN_NAME_LEN
       THEN Step(S, "name_too_short", <<>>, <<>>)
       ELSE LET r == set_product_name(S, user_id, product_name)
            IN IF {"category", "subcategory"} \subseteq DOMAIN session
               THEN Step(r.store, "product_name_entered", r.log,
                         << Task("extract", user_id, product_name,
                                 session.category, session.subcategory, NoPrice) >>)
               ELSE \* session['category'] raises KeyError, caught at the end
                    Step(r.store, "product_name_error", r.log, <<>>)

\* up to the await of the confirmation message
\* the length validation off by one at both ends: <= 10 and >= 500 refused
process_description_input_exclusive(S, user_id, description_text) ==
    LET text == strip(description_text)
    IN IF Len(text) <= MIN_DESCRIPTION_LEN \/ Len(text) >= MAX_DESCRIPTION_LEN
       THEN Step(S, "description_refused", <<>>, <<>>)
       ELSE LET r == set_description(S, user_id, text)
            IN Step(r.store, "description_entered",
                    r.log \o <<"description_entered">>,
                    << Task("description", user_id, <<>>, <<>>, <<>>, NoPrice) >>)

process_description_input(S, user_id, description_text) ==
    LET text == strip(description_text)
    IN IF Len(text) < MIN_DESCRIPTION_LEN \/ Len(text) > MAX_DESCRIPTION_LEN
       THEN Step(S, "description_refused", <<>>, <<>>)
       ELSE LET r == set_description(S, user_id, text)
            IN Step(r.store, "description_entered",
                    r.log \o <<"description_entered">>,
                    << Task("description", user_id, <<>>, <<>>, <<>>, NoPrice) >>)

\* up to the await of event.get_sender()
process_price_input(S, user_id, price_text) ==
    LET price == parse_price(price_text)
    IN IF price = <<>>
       THEN Step(S, "price_refused", <<>>, <<>>)
       ELSE Step(S, "price_accepted", <<>>,
                 << Task("price", user_id, <<>>, <<>>, <<>>, price[1]) >>)

handle_text_message(S, user_id, text) ==
    LET message_text == strip(text)
    IN IF user_id \notin DOMAIN S
       THEN Step(S, "text_no_session", <<>>, <<>>)
       ELSE LET state == Get(S[user_id], "state", "None")
            IN IF state = PRODUCT_INPUT
               THEN process_product_name(S, user_id, message_text)
               ELSE IF state = DESCRIPTION_INPUT
               THEN process_description_input(S, user_id, message_text)
               ELSE IF state = PRICE_INPUT
               THEN process_price_input(S, user_id, message_text)
               ELSE Step(S, "text_ignored", <<>>, <<>>)

\* the branches of handle_text_message that end without any message to the
\* user: the return when there is no session, and a state that none of the
\* three tests matches
SilentTextBranches == {"text_no_session", "text_ignored"}

Username(user_id) == <<"User_", user_id>>

----------------------------------------------------------------------------
(* Inbound events *)

\* the buttons of the category Tv, and the fixed buttons
Payloads ==
    {cat_payload(Tv), subcat_payload(Tv, Lcd),
     BACK_TO_CATEGORIES, CANCEL_LISTING, CONFIRM_PRODUCT, REJECT_PRODUCT}

\* " 9 " is a price, and too short for a product name or a description;
\* "good as new" is a product name and a description, and no price
PriceText == <<" ", "9", " ">>
LongText == <<"g", "o", "o", "d", " ", "a", "s", " ", "n", "e", "w">>

Texts == {PriceText, LongText}

----------------------------------------------------------------------------
(* The state machine *)

Event(op, user_id, log) == [op |-> op, user |-> user_id, log |-> log]

\* a caller that is not inside a store call; returned holds its latest call
IdleCall(returned) ==
    [pc |-> "idle", op |-> "none", fields |-> EmptyDict, data |-> <<>>,
     returned |-> returned]

Init ==
    /\ sessions = <<>>
    /\ listings = <<>>
    /\ now = 1
    /\ tasks = EmptyBag
    /\ last = Event("init", 0, <<>>)
    /\ calls = [c \in Sellers |-> IdleCall(<<>>)]
    /\ input = <<>>
    /\ output = <<>>

Spawn(spawn) ==
    /\ spawn # <<>> => BagCardinality(tasks) < MaxTasks
    /\ tasks' = IF spawn = <<>> THEN tasks ELSE tasks (+) SetToBag({spawn[1]})

Finish(t) == tasks' = tasks (-) SetToBag({t})

Handle(user_id, step) ==
    /\ sessions' = step.store
    /\ last' = Event(step.op, user_id, step.log)
    /\ Spawn(step.spawn)
    /\ UNCHANGED <<listings, now, calls, input, output>>

PlaseazaAnunt(u) == Handle(u, handle_plaseaza_anunt(sessions, u))

CallbackQuery(u, data) == Handle(u, handle_callback_query(sessions, u, data))

CancelCommand(u) == Handle(u, handle_cancel_command(sessions, u))

TextMessage(u, text) == Handle(u, handle_text_message(sessions, u, text))

\* process_product_name after the extraction call returned
ExtractionReturns(t, outcome) ==
    /\ t.kind = "extract"
    /\ LET extracted_data ==
               extract_product_attributes(t.product_name, t.category, t.subcategory,
                   get_expected_attributes(t.category, t.subcategory), outcome)
           r == set_extracted_data(sessions, t.user, extracted_data)
       IN /\ sessions' = r.store
          /\ last' = Event(IF extracted_data.success THEN "product_data_extracted"
                           ELSE "extraction_failed", t.user, r.log)
    /\ Finish(t)
    /\ UNCHANGED <<listings, now, calls, input, output>>

\* process_description_input after its confirmation message was sent
DescriptionResumes(t) ==
    /\ t.kind = "description"
    /\ LET r == update_session_state(sessions, t.user, PRICE_INPUT)
       IN /\ sessions' = r.store
          /\ last' = Event("price_requested", t.user, r.log)
    /\ Finish(t)
    /\ UNCHANGED <<listings, now, calls, input, output>>

\* process_price_input after get_sender; clock is what datetime.now() reads
PriceResumes(t, clock) ==
    /\ t.kind = "price"
    /\ LET r == complete_listing(sessions, listings, t.user, Username(t.user),
                                 t.price, clock)
       IN /\ sessions' = r.store
          /\ listings' = r.listings
          /\ now' = IF t.user \in DOMAIN sessions
                       /\ "extracted_data" \in DOMAIN sessions[t.user]
                    THEN clock ELSE now
          /\ last' = Event(IF r.product_id # 0 THEN "listing_completed"
                           ELSE "listing_failed", t.user, r.log)
    /\ Finish(t)
    /\ UNCHANGED <<calls, input, output>>

\* the awaited Telegram call raises: the handler's except branch ends it
AwaitRaises(t) ==
    /\ last' = Event("await_raised", t.user, <<>>)
    /\ Finish(t)
    /\ UNCHANGED <<sessions, listings, now, calls, input, output>>

Next ==
    \/ \E u \in Users : PlaseazaAnunt(u)
    \/ \E u \in Users, data \in Payloads : CallbackQuery(u, data)
    \/ \E u \in Users : CancelCommand(u)
    \/ \E u \in Users, text \in Texts : TextMessage(u, text)
    \/ \E t \in BagToSet(tasks), outcome \in Outcomes : ExtractionReturns(t, outcome)
    \/ \E t \in BagToSet(tasks) : DescriptionResumes(t)
    \/ \E t \in BagToSet(tasks), clock \in now..MaxNow : PriceResumes(t, clock)
    \/ \E t \in BagToSet(tasks) : AwaitRaises(t)

Spec == Init /\ [][Next]_vars

\* the extraction call returns and process_product_name goes on
ExtractionCompletes ==
    \E t \in BagToSet(tasks), outcome \in Outcomes : ExtractionReturns(t, outcome)

\* the HTTP client bounds the extraction call, and the event loop resumes the
\* handler that awaits it; the user and Telegram owe the bot no step
SpecFair == Init /\ [][Next]_vars /\ WF_vars(ExtractionCompletes)

----------------------------------------------------------------------------
(* Two sellers at the price step.  users.json outlives the process         *)
(* (init_storage creates it only when it is missing), so the bot can start *)
(* with the sessions of an earlier run: here both sellers have walked the  *)
(* conversation up to PRICE_INPUT.                                         *)

\* the store after user_id went from /plaseaza_anunt to the description prompt
WalkToDescription(S, user_id) ==
    LET s1 == start_new_session(S, user_id).store
        s2 == set_category(s1, user_id, Tv).store
        s3 == set_subcategory(s2, user_id, Lcd).store
        s4 == set_product_name(s3, user_id, LongText).store
        s5 == set_extracted_data(s4, user_id,
                  extract_product_attributes(LongText, Tv, Lcd,
                      get_expected_attributes(Tv, Lcd), "json")).store
    IN update_session_state(s5, user_id, DESCRIPTION_INPUT).store

\* the store after user_id went from /plaseaza_anunt to the price prompt
Walk(S, user_id) ==
    LET s7 == set_description(WalkToDescription(S, user_id), user_id, LongText).store
    IN update_session_state(s7, user_id, PRICE_INPUT).store

InitSellers ==
    /\ sessions = Walk(Walk(<<>>, 1), 2)
    /\ listings = <<>>
    /\ now = 1
    /\ tasks = EmptyBag
    /\ last = Event("init", 0, <<>>)
    /\ calls = [c \in Sellers |-> IdleCall(<<>>)]
    /\ input = <<>>
    /\ output = <<>>

\* the clock can read one millisecond more than in Spec
NextSellers ==
    \/ \E u \in Sellers, text \in Texts : TextMessage(u, text)
    \/ \E u \in Sellers : PlaseazaAnunt(u)
    \/ \E u \in Sellers : CallbackQuery(u, CONFIRM_PRODUCT)
    \/ \E t \in BagToSet(tasks), clock \in now..(MaxNow + 1) : PriceResumes(t, clock)
    \/ \E t \in BagToSet(tasks) : DescriptionResumes(t)
    \/ \E t \in BagToSet(tasks) : AwaitRaises(t)

SpecSellers == InitSellers /\ [][NextSellers]_vars

----------------------------------------------------------------------------
(* One seller at the price prompt, and a text drawn at the start that the  *)
(* seller sends as the price.                                              *)

PriceAlphabet == {"0", "1", "5", ".", ",", "a", " "}

MaxPriceLen == 3    \* all texts up to this length are drawn

PriceExamples ==
    {Chars(str) : str \in {"299.99", "150,50", "0", "1000001", "abc",
                           "1000000", "1000000.5", "0.01"}}

\* the texts that reach the handler: those with something left after strip()
PriceTexts ==
    PriceExamples \cup
    {text \in UNION {[1..n -> PriceAlphabet] : n \in 1..MaxPriceLen} :
        strip(text) # <<>>}

InitPrice ==
    /\ sessions = Walk(<<>>, 1)
    /\ listings = <<>>
    /\ now = 1
    /\ tasks = EmptyBag
    /\ last = Event("init", 0, <<>>)
    /\ calls = [c \in Sellers |-> IdleCall(<<>>)]
    /\ input \in PriceTexts
    /\ output = <<>>

NextPrice ==
    \/ \E u \in Users : TextMessage(u, input)
    \/ \E t \in BagToSet(tasks), clock \in now..MaxNow : PriceResumes(t, clock)
    \/ \E t \in BagToSet(tasks) : AwaitRaises(t)

SpecPrice == InitPrice /\ [][NextPrice]_vars

----------------------------------------------------------------------------
(* One seller at the description prompt, and a text drawn at the start     *)
(* that the seller sends as the description.                               *)

MaxPad == 2    \* spaces before and after the drawn texts: 0..MaxPad

\* n times the character c
Repeat(c, n) == [i \in 1..n |-> c]

DescriptionLengths ==
    {1, MIN_DESCRIPTION_LEN - 1, MIN_DESCRIPTION_LEN, MIN_DESCRIPTION_LEN + 1,
     MAX_DESCRIPTION_LEN - 1, MAX_DESCRIPTION_LEN, MAX_DESCRIPTION_LEN + 1}

DescriptionTexts ==
    {Repeat(" ", lead) \o Repeat("x", n) \o Repeat(" ", trail) :
        lead \in 0..MaxPad, trail \in 0..MaxPad, n \in DescriptionLengths}
    \cup {Repeat("x", n) \o <<" ">> \o Repeat("y", MIN_DESCRIPTION_LEN - 1 - n) :
              n \in 1..(MIN_DESCRIPTION_LEN - 2)}

\* the seller confirmed an extracted product, or pressed a confirm button
\* right after /plaseaza_anunt
InitDescription ==
    /\ sessions \in
           { WalkToDescription(<<>>, 1),
             update_session_state(start_new_session(<<>>, 1).store, 1,
                                  DESCRIPTION_INPUT).store }
    /\ listings = <<>>
    /\ now = 1
    /\ tasks = EmptyBag
    /\ last = Event("init", 0, <<>>)
    /\ calls = [c \in Sellers |-> IdleCall(<<>>)]
    /\ input \in DescriptionTexts
    /\ output = <<>>

NextDescription ==
    \/ \E u \in Users : TextMessage(u, input)
    \/ \E t \in BagToSet(tasks) : DescriptionResumes(t)
    \/ \E t \in BagToSet(tasks) : AwaitRaises(t)

SpecDescription == InitDescription /\ [][NextDescription]_vars

----------------------------------------------------------------------------
(* SessionManager operations while users.json cannot be read or written.   *)
(* The operation, the store it finds and the state of the file are drawn   *)
(* at the start; the file stays as drawn for the duration of the operation.*)

\* _load_users_data: the content of the file, the empty store when the read raises
load_users_data(S, readable) == IF readable THEN S ELSE <<>>

\* _save_users_data: the file after the call; a write that raises is swallowed
save_users_data(S, data, writable) == IF writable THEN data ELSE S

Operations ==
    {"start_new_session", "set_category", "set_subcategory", "set_product_name",
     "set_extracted_data", "set_description"}

\* the operation for user 1 on the store as loaded
Operate(op, data) ==
    CASE op = "start_new_session" -> start_new_session(data, 1)
      [] op = "set_category" -> set_category(data, 1, Tv)
      [] op = "set_subcategory" -> set_subcategory(data, 1, Lcd)
      [] op = "set_product_name" -> set_product_name(data, 1, LongText)
      [] op = "set_extracted_data" ->
             set_extracted_data(data, 1,
                 extract_product_attributes(LongText, Tv, Lcd,
                     get_expected_attributes(Tv, Lcd), "json"))
      [] op = "set_description" -> set_description(data, 1, LongText)

\* the stores the operations are tried on
StoredSessions ==
    { <<>>,
      start_new_session(<<>>, 1).store,
      set_category(start_new_session(<<>>, 1).store, 1, Tv).store,
      WalkToDescription(<<>>, 1),
      Walk(<<>>, 1),
      Walk(<<>>, 2),
      Walk(Walk(<<>>, 1), 2),
      WalkToDescription(Walk(<<>>, 2), 1) }

InitFaults ==
    /\ sessions \in StoredSessions
    /\ listings = <<>>
    /\ now = 1
    /\ tasks = EmptyBag
    /\ last = Event("init", 0, <<>>)
    /\ calls = [c \in Sellers |-> IdleCall(<<>>)]
    /\ input \in [op : Operations, stored : {sessions},
                   readable : BOOLEAN, writable : BOOLEAN]
    /\ output = <<>>

\* the operation runs: it changes the copy it loaded and saves it, unless it
\* returned before the save; output is the value it returns
OperationRuns ==
    /\ output = <<>>
    /\ LET data == load_users_data(sessions, input.readable)
           r == Operate(input.op, data)
       IN /\ sessions' = IF r.store = data THEN sessions
                         ELSE save_users_data(sessions, r.store, input.writable)
          /\ output' = <<r.ok>>
          /\ last' = Event(input.op, 1, r.log)
    /\ UNCHANGED <<listings, now, tasks, calls, input>>

NextFaults == OperationRuns

SpecFaults == InitFaults /\ [][NextFaults]_vars

----------------------------------------------------------------------------
(* _validate_extracted_data on raw data and expected attributes drawn at   *)
(* the start.                                                              *)

MaxData == 2        \* entries of the raw data: 0..MaxData
MaxExpected == 2    \* length of the expected-attribute list: 0..MaxExpected

Extra == <<"X">>

RawValues ==
    { Str(<<>>), Str(<<"N", "/", "A">>), Str(<<" ", "v", " ">>), Str(<<"v">>),
      Str(NOT_FOUND), Number(1), Str(<<" ">>) }

\* dicts of up to MaxData entries: sequences of pairs with distinct keys
RawData ==
    {data \in UNION {[1..n -> {Brand, Model, Extra} \X RawValues] : n \in 0..MaxData} :
        \A i, j \in DOMAIN data : data[i][1] = data[j][1] => i = j}

ExpectedLists == UNION {[1..n -> {Brand, Model}] : n \in 0..MaxExpected}

\* the data and the list of the validation test of test_deepseek_api
Storage == Chars("Storage")

TestData ==
    << <<Brand, Str(Chars("Apple"))>>, <<Model, Str(Chars("iPhone 13 Pro"))>>,
       <<Storage, Str(Chars("Unknown"))>> >>

TestExpected == <<Brand, Model, Storage>>

InitValidate ==
    /\ sessions = <<>>
    /\ listings = <<>>
    /\ now = 1
    /\ tasks = EmptyBag
    /\ last = Event("init", 0, <<>>)
    /\ calls = [c \in Sellers |-> IdleCall(<<>>)]
    /\ input \in [data : RawData, expected : ExpectedLists]
                  \cup {[data |-> TestData, expected |-> TestExpected]}
    /\ output = <<>>

Validates ==
    /\ output = <<>>
    /\ output' = <<validate_extracted_data(input.data, input.expected)>>
    /\ UNCHANGED <<sessions, listings, now, tasks, last, calls, input>>

\* the dict that was returned is validated again, against the same list;
\* output then holds the first dict, its items and the items of the second
ValidatesAgain ==
    /\ Len(output) = 1
    /\ output' = <<output[1],
                   validated_items(input.data, input.expected),
                   validated_items(validated_items(input.data, input.expected),
                                   input.expected)>>
    /\ UNCHANGED <<sessions, listings, now, tasks, last, calls, input>>

NextValidate == Validates \/ ValidatesAgain

SpecValidate == InitValidate /\ [][NextValidate]_vars

----------------------------------------------------------------------------
(* _calculate_confidence on an attribute dict drawn at the start.          *)

MaxAttrs == 3    \* items of the attribute dict: 0..MaxAttrs

\* the keys, in the order in which a drawn dict holds them
ScoredKeys == <<Brand, Model, ProductType, Storage, Extra>>

ScoredValues ==
    { Str(NOT_FOUND), Str(Chars("Unknown")), Str(<<>>), Str(Chars("Apple")),
      Str(Chars("iPhone 13 Pro")), Str(Chars("128GB")) }

\* the dict with the values of f as the sequence of its items
ItemsOf(f) ==
    LET Has(key) == key \in DOMAIN f
        keys == SelectSeq(ScoredKeys, Has)
    IN [i \in DOMAIN keys |-> <<keys[i], f[keys[i]]>>]

\* dicts of up to MaxAttrs items
ScoredDicts ==
    {ItemsOf(f) : f \in UNION {[K -> ScoredValues] :
                      K \in {K \in SUBSET Range(ScoredKeys) :
                                 Cardinality(K) <= MaxAttrs}}}

InitConfidence ==
    /\ sessions = <<>>
    /\ listings = <<>>
    /\ now = 1
    /\ tasks = EmptyBag
    /\ last = Event("init", 0, <<>>)
    /\ calls = [c \in Sellers |-> IdleCall(<<>>)]
    /\ input \in ScoredDicts
    /\ output = <<>>

ConfidenceCalculated ==
    /\ output = <<>>
    /\ output' = <<calculate_confidence(input)>>
    /\ UNCHANGED <<sessions, listings, now, tasks, last, calls, input>>

NextConfidence == ConfidenceCalculated

SpecConfidence == InitConfidence /\ [][NextConfidence]_vars

----------------------------------------------------------------------------
(* The handlers registered on NewMessage, by BotHandlers.register_handlers *)
(* and by script.py, and the ones that fire for a message drawn at the     *)
(* start.                                                                  *)

\* the commands whose handlers are registered
Commands ==
    { Chars("/start"), Chars("/plaseaza_anunt"), Chars("/help"), Chars("/cancel"),
      Chars("/status"), Chars("/my_listings"), Chars("/time") }

\* a filter that looks for the command anywhere in the text
command_matches_anywhere(text, command) ==
    text # <<>> /\ Contains(lower(text), command)

\* lambda e: e.text and e.text.lower().startswith(command)
command_matches(text, command) ==
    text # <<>> /\ StartsWith(lower(text), command)

\* lambda e: e.text and not e.text.startswith('/') and e.text.strip() != ''
text_matches(text) ==
    text # <<>> /\ ~StartsWith(text, <<"/">>) /\ strip(text) # <<>>

\* the handlers that fire for a message
fired_handlers(text) ==
    [commands |-> {command \in Commands : command_matches(text, command)},
     text |-> text_matches(text)]

\* a command as it is, in capitals, with text after it, with a space
\* before it, without its last character, and followed by a command
MessageTexts ==
    UNION {{command, upper(command), command \o <<" ", "x">>, <<" ">> \o command,
            SubSeq(command, 1, Len(command) - 1)} : command \in Commands}
        \cup {a \o b : a \in Commands, b \in Commands}
        \cup { <<>>, <<" ", " ">>, <<"/">>, <<"h", "i">>, <<"h", "i", " ", "/", "x">>,
               <<"/", "x">> }

InitRouting ==
    /\ sessions = <<>>
    /\ listings = <<>>
    /\ now = 1
    /\ tasks = EmptyBag
    /\ last = Event("init", 0, <<>>)
    /\ calls = [c \in Sellers |-> IdleCall(<<>>)]
    /\ input \in MessageTexts
    /\ output = <<>>

MessageArrives ==
    /\ output = <<>>
    /\ output' = <<fired_handlers(input)>>
    /\ UNCHANGED <<sessions, listings, now, tasks, last, calls, input>>

NextRouting == MessageArrives

SpecRouting == InitRouting /\ [][NextRouting]_vars

----------------------------------------------------------------------------
(* The catalog lookups on names drawn at the start, over a catalog file    *)
(* that could be loaded or not.                                            *)

\* names as the catalog writes them, in another case, cut short, longer,
\* and the empty name
QueryNames ==
    { Tv, lower(Tv), <<"T", "V">>, <<"T">>, <<"T", "v", "s">>, Pc, <<>>,
      Lcd, lower(Lcd), <<"L", "c">>, Mac, <<"m", "A", "C">> }

InitCatalog ==
    /\ sessions = <<>>
    /\ listings = <<>>
    /\ now = 1
    /\ tasks = EmptyBag
    /\ last = Event("init", 0, <<>>)
    /\ calls = [c \in Sellers |-> IdleCall(<<>>)]
    /\ input \in [readable : BOOLEAN, category : QueryNames, subcategory : QueryNames]
    /\ output = <<>>

\* a SessionManager is built and the three lookups are called
CatalogQueried ==
    /\ output = <<>>
    /\ LET categories == load_categories(Catalog, input.readable)
       IN output' = <<[category |-> category_by_name(categories, input.category),
                       subcategory |-> subcategory_by_name(categories, input.category,
                                                           input.subcategory),
                       attributes |-> attributes_by_name(categories, input.category,
                                                          input.subcategory)]>>
    /\ UNCHANGED <<sessions, listings, now, tasks, last, calls, input>>

NextCatalog == CatalogQueried

SpecCatalog == InitCatalog /\ [][NextCatalog]_vars

----------------------------------------------------------------------------
(* The payloads of the buttons of a category and a subcategory whose names *)
(* are drawn at the start, decoded as handle_callback_query decodes them.  *)

MaxName == 2    \* length of a category or subcategory name: 1..MaxName

NameAlphabet == {"a", "b", "_"}

Names == UNION {[1..n -> NameAlphabet] : n \in 1..MaxName}

InitButtons ==
    /\ sessions = <<>>
    /\ listings = <<>>
    /\ now = 1
    /\ tasks = EmptyBag
    /\ last = Event("init", 0, <<>>)
    /\ calls = [c \in Sellers |-> IdleCall(<<>>)]
    /\ input \in [category : Names, subcategory : Names]
    /\ output = <<>>

\* both buttons are pressed: output holds the decoded category of the
\* first and the decoded parts of the second
ButtonsDecoded ==
    /\ output = <<>>
    /\ output' = <<decode_category(cat_payload(input.category)),
                   decode_subcategory(subcat_payload(input.category,
                                                     input.subcategory))>>
    /\ UNCHANGED <<sessions, listings, now, tasks, last, calls, input>>

NextButtons == ButtonsDecoded

SpecButtons == InitButtons /\ [][NextButtons]_vars

----------------------------------------------------------------------------
(* The parsing of a message content drawn at the start, by either client.  *)

Clients == {"DeepSeekAPI", "AIModelClient"}

ObjectText == Chars("{\"Brand\": \"v\"}")

\* prose, then the object in a fenced block
FencedText ==
    <<"H", "i", "\n">> \o FenceJson \o <<"\n">> \o ObjectText \o <<"\n">> \o Fence

\* prose before and after the bare object
BareText == <<"H", "i", " ">> \o ObjectText \o <<" ", "o", "k">>

\* contents in which the object is wrapped
WrappedTexts == {FencedText, BareText}

BrandLine == Chars("Brand: Apple")

\* contents that are no JSON and have the line "Brand: Apple"
BrandLineTexts ==
    { BrandLine,
      <<"H", "i", "\n">> \o BrandLine \o <<"\n", "o", "k">>,
      <<"b", "r", "a", "n", "d", "\n">> \o BrandLine,
      <<"b", "r", "a", "n", "d", "s", ":", " ", "v", "\n">> \o BrandLine }

ContentTexts ==
    WrappedTexts \cup BrandLineTexts \cup {ObjectText, Chars("hi"), Chars("[1]")}

InitContent ==
    /\ sessions = <<>>
    /\ listings = <<>>
    /\ now = 1
    /\ tasks = EmptyBag
    /\ last = Event("init", 0, <<>>)
    /\ calls = [c \in Sellers |-> IdleCall(<<>>)]
    /\ input \in [client : Clients, content : ContentTexts, expected : ExpectedLists]
    /\ output = <<>>

ContentParsed ==
    /\ output = <<>>
    /\ output' = <<IF input.client = "DeepSeekAPI"
                   THEN parse_content(LongText, Tv, Lcd, input.expected,
                                      Str(input.content))
                   ELSE ai_parse_content(LongText, Tv, Lcd, input.expected,
                                         Str(input.content))>>
    /\ UNCHANGED <<sessions, listings, now, tasks, last, calls, input>>

NextContent == ContentParsed

SpecContent == InitContent /\ [][NextContent]_vars

----------------------------------------------------------------------------
(* extract_product_attributes on a response drawn at the start.            *)

\* a body whose first choice has a message with this content
WithContent(content) ==
    JDict(<< <<Chars("choices"),
               JList(<<JDict(<< <<Chars("message"),
                                  JDict(<< <<Chars("content"), content>> >>)>> >>)>>)>> >>)

\* bodies with no content, or with a content that is None or ''
EmptyContentBodies ==
    { JDict(<<>>),
      JDict(<< <<Chars("choices"), JList(<<JDict(<<>>)>>)>> >>),
      JDict(<< <<Chars("choices"),
                 JList(<<JDict(<< <<Chars("message"), JDict(<<>>)>> >>)>>)>> >>),
      WithContent(None), WithContent(Str(<<>>)) }

\* bodies whose list of choices is empty
EmptyChoicesBodies == { JDict(<< <<Chars("choices"), JList(<<>>)>> >>) }

\* bodies that are JSON but not of the shape the code reads
MisshapenBodies ==
    { JList(<<>>), Number(1),
      JDict(<< <<Chars("choices"), None>> >>),
      JDict(<< <<Chars("choices"), JList(<<Number(1)>>)>> >>),
      JDict(<< <<Chars("choices"),
                 JList(<<JDict(<< <<Chars("message"), None>> >>)>>)>> >>) }

\* contents that are JSON, but no object
NonObjectTexts == {"[1]", "1", "null"}

\* contents that are a JSON object
ObjectTexts ==
    {"{}", "{\"Brand\": \"v\"}", "{\"attributes\": [1]}",
     "{\"attributes\": {\"Model\": \"v\"}}"}

\* contents that are no JSON
ProseTexts == {"hi"}

Bodies ==
    {ContentTypeError} \cup EmptyContentBodies \cup EmptyChoicesBodies
        \cup MisshapenBodies
        \cup {WithContent(Str(Chars(t))) :
                  t \in NonObjectTexts \cup ObjectTexts \cup ProseTexts}

Statuses == {200, 500}

RaisedByRequest == {"", "ClientConnectorError", "TimeoutError"}

Responses == [raises : RaisedByRequest, status : Statuses, body : Bodies]

InitExtraction ==
    /\ sessions = <<>>
    /\ listings = <<>>
    /\ now = 1
    /\ tasks = EmptyBag
    /\ last = Event("init", 0, <<>>)
    /\ calls = [c \in Sellers |-> IdleCall(<<>>)]
    /\ input \in [product_name : {LongText}, expected : ExpectedLists,
                  response : Responses]
    /\ output = <<>>

ExtractionCalled ==
    /\ output = <<>>
    /\ output' = <<request_extraction(input.product_name, Tv, Lcd,
                                      input.expected, input.response)>>
    /\ UNCHANGED <<sessions, listings, now, tasks, last, calls, input>>

NextExtraction == ExtractionCalled

SpecExtraction == InitExtraction /\ [][NextExtraction]_vars

----------------------------------------------------------------------------
(* JSONStorage called from two threads, each on behalf of its own user.    *)
(* _load_users_data and _save_users_data each hold the lock for their own  *)
(* duration, so each is one step; between them the caller holds no lock.   *)

StoreOps == {"update_user_session", "clear_user_session"}

StoreFields == {[state |-> CATEGORY_SELECTION], [state |-> PRICE_INPUT]}

\* the call starts and _load_users_data returns the content of users.json
StoreCallLoads(c, op, fields) ==
    /\ calls[c].pc = "idle"
    /\ calls' = [calls EXCEPT ![c] =
                     [pc |-> "loaded", op |-> op,
                      fields |-> IF op = "update_user_session" THEN fields ELSE EmptyDict,
                      data |-> sessions, returned |-> calls[c].returned]]
    /\ UNCHANGED <<sessions, listings, now, tasks, last, input, output>>

\* the call changes its copy, _save_users_data writes it, the call returns
StoreCallSaves(c) ==
    /\ calls[c].pc = "loaded"
    /\ sessions' =
           IF calls[c].op = "update_user_session"
           THEN update_user_session(calls[c].data, c, calls[c].fields)
           ELSE IF c \in DOMAIN calls[c].data
                THEN clear_user_session(calls[c].data, c)
                ELSE sessions
    /\ calls' = [calls EXCEPT ![c] =
                     IdleCall(<<[op |-> calls[c].op, fields |-> calls[c].fields]>>)]
    /\ UNCHANGED <<listings, now, tasks, last, input, output>>

NextStore ==
    \/ \E c \in Sellers, op \in StoreOps, fields \in StoreFields :
           StoreCallLoads(c, op, fields)
    \/ \E c \in Sellers : StoreCallSaves(c)

SpecStore == Init /\ [][NextStore]_vars

----------------------------------------------------------------------------
(* JSONStorage.get_user_products over the files of the listings directory. *)
(* files is the directory in the order os.listdir yields it; a file is     *)
(* [id, user_id, created_at, readable], and one that cannot be read or     *)
(* parsed is skipped.  created_at is the text of the timestamp, with its   *)
(* fraction when there is one; sorted() compares the texts.                *)

\* the place of a character of a timestamp in Python's string order
CharRank(c) == IF c = "." THEN 0 ELSE 1 + DigitVal(c)

\* a < b on strings
str_less(a, b) ==
    \E i \in 1..Len(b) :
        /\ \A j \in 1..(i - 1) : j <= Len(a) /\ a[j] = b[j]
        /\ (i > Len(a) \/ CharRank(a[i]) < CharRank(b[i]))

\* products.sort(key=created_at, reverse=True): equal keys keep their order
RECURSIVE sort_newest_first(_)
sort_newest_first(products) ==
    IF products = <<>> THEN <<>>
    ELSE LET x == Head(products)
             rest == sort_newest_first(Tail(products))
             k == Cardinality({i \in 1..Len(rest) :
                                  str_less(x.created_at, rest[i].created_at)})
         IN SubSeq(rest, 1, k) \o <<x>> \o SubSeq(rest, k + 1, Len(rest))

\* products[:limit]
slice_to(products, limit) ==
    SubSeq(products, 1,
           IF limit >= 0 THEN Min(limit, Len(products))
           ELSE Max(0, Len(products) + limit))

\* the listings of the user in directory order, cut to the limit
get_user_products_unsorted(files, user_id, limit) ==
    slice_to(SelectSeq(files, LAMBDA f : f.readable /\ f.user_id = user_id), limit)

get_user_products(files, user_id, limit) ==
    LET products == SelectSeq(files, LAMBDA f : f.readable /\ f.user_id = user_id)
    IN slice_to(sort_newest_first(products), limit)

MaxFiles == 3
MaxLimit == 3

Stamps == {<<"1">>, <<"1", ".", "5">>, <<"2">>}

\* the k-th file of the directory holds the listing with id k
Directories ==
    UNION {{[k \in 1..n |-> [id |-> k, user_id |-> f[k].user_id,
                             created_at |-> f[k].created_at,
                             readable |-> f[k].readable]] :
               f \in [1..n -> [user_id : Sellers, created_at : Stamps,
                               readable : BOOLEAN]]} :
           n \in 0..MaxFiles}

\* the callers pass the limits 10 (default), 5 and 1
Limits == 0..MaxLimit

InitProducts ==
    /\ sessions = <<>>
    /\ listings = <<>>
    /\ now = 1
    /\ tasks = EmptyBag
    /\ last = Event("init", 0, <<>>)
    /\ calls = [c \in Sellers |-> IdleCall(<<>>)]
    /\ input \in [files : Directories, user_id : Sellers, limit : Limits]
    /\ output = <<>>

ProductsListed ==
    /\ output = <<>>
    /\ output' = <<get_user_products(input.files, input.user_id, input.limit)>>
    /\ UNCHANGED <<sessions, listings, now, tasks, last, calls, input>>

NextProducts == ProductsListed

SpecProducts == InitProducts /\ [][NextProducts]_vars

----------------------------------------------------------------------------
(* Extraction calls in flight while the seller goes on: every handler is   *)
(* its own task of the event loop, so a second product name can be handled *)
(* while the call for the first is still awaited.                          *)

MaxInFlight == 2    \* extraction calls awaited at the same time

ProductNames == {LongText, Chars("iPhone 13 Pro")}

RaceButtons == {cat_payload(Tv), subcat_payload(Tv, Lcd), CANCEL_LISTING, REJECT_PRODUCT}

\* handle_text_message for a product name, up to the await of the call
NameSent(u, product_name) ==
    LET step == handle_text_message(sessions, u, product_name)
    IN /\ sessions' = step.store
       /\ last' = Event(step.op, u, step.log)
       /\ tasks' = IF step.spawn = <<>> THEN tasks
                   ELSE tasks (+) SetToBag({step.spawn[1]})
       /\ BagCardinality(tasks') <= MaxInFlight
       /\ UNCHANGED <<listings, now, calls, input, output>>

NextRace ==
    \/ \E u \in Users : PlaseazaAnunt(u)
    \/ \E u \in Users, data \in RaceButtons : CallbackQuery(u, data)
    \/ \E u \in Users, product_name \in ProductNames : NameSent(u, product_name)
    \/ \E t \in BagToSet(tasks), outcome \in Outcomes : ExtractionReturns(t, outcome)

SpecRace == Init /\ [][NextRace]_vars

----------------------------------------------------------------------------
(* The conversation of user 1 next to the stored session of user 2:        *)
(* users.json already holds the record of another seller, at one of the    *)
(* steps of that seller's conversation.  Every handler step is one action, *)
(* so the store calls of a step run one after the other.                   *)

NeighbourStores ==
    { start_new_session(<<>>, 2).store,
      WalkToDescription(<<>>, 2),
      Walk(<<>>, 2) }

InitNeighbours ==
    /\ sessions \in NeighbourStores
    /\ listings = <<>>
    /\ now = 1
    /\ tasks = EmptyBag
    /\ last = Event("init", 0, <<>>)
    /\ calls = [c \in Sellers |-> IdleCall(<<>>)]
    /\ input = <<>>
    /\ output = <<>>

SpecNeighbours == InitNeighbours /\ [][Next]_vars

----------------------------------------------------------------------------
(* complete_listing when save_product can fail.  saved tells whether the   *)
(* listing file could be written; when it could not, save_product catches  *)
(* the exception and returns None, and nothing of the listing is stored.   *)

\* a completion that clears the session whether or not the listing was saved
complete_listing_clears(S, L, user_id, username, price, t, saved) ==
    LET r == complete_listing(S, L, user_id, username, price, t)
    IN IF saved THEN r
       ELSE [product_id |-> 0, store |-> clear_user_session(S, user_id),
             listings |-> L, log |-> <<>>]

complete_listing_saving(S, L, user_id, username, price, t, saved) ==
    LET r == complete_listing(S, L, user_id, username, price, t)
    IN IF saved THEN r
       ELSE \* product_id is None: no clear_user_session, no log entry
            [product_id |-> 0, store |-> S, listings |-> L, log |-> <<>>]

\* the listings directory before the call: empty, or the listing of an
\* earlier conversation of user 2
StoredListings ==
    { <<>>,
      save_product(<<>>, 1, 2, Username(2), Tv, Lcd, LongText, EmptyDict,
                   parse_price(PriceText)[1]) }

MaxClock == 3    \* datetime.now() reads 2..MaxClock, after the stored listing

InitCompletion ==
    /\ sessions \in StoredSessions
    /\ listings \in StoredListings
    /\ now \in 2..MaxClock
    /\ tasks = EmptyBag
    /\ last = Event("init", 0, <<>>)
    /\ calls = [c \in Sellers |-> IdleCall(<<>>)]
    /\ input \in [stored : {sessions}, listings : {listings}, saved : BOOLEAN]
    /\ output = <<>>

\* complete_listing runs for user 1 with a valid price; output is what it returns
CompletionRuns ==
    /\ output = <<>>
    /\ LET r == complete_listing_saving(sessions, listings, 1, Username(1),
                                        parse_price(PriceText)[1], now, input.saved)
       IN /\ sessions' = r.store
          /\ listings' = r.listings
          /\ output' = <<r.product_id>>
          /\ last' = Event("complete_listing", 1, r.log)
    /\ UNCHANGED <<now, tasks, calls, input>>

NextCompletion == CompletionRuns

SpecCompletion == InitCompletion /\ [][NextCompletion]_vars

----------------------------------------------------------------------------
(* A category or subcategory button pressed by user 1, with names drawn at *)
(* the start: a button of the keyboard, one of an earlier keyboard, or a   *)
(* payload no keyboard of the bot holds.  handle_callback_query answers    *)
(* "Error selecting ..." exactly when set_category or set_subcategory      *)
(* returned False.                                                         *)

SelectionStores ==
    { <<>>,
      start_new_session(<<>>, 1).store,
      set_category(start_new_session(<<>>, 1).store, 1, Tv).store,
      set_category(start_new_session(<<>>, 1).store, 1, Pc).store,
      set_category(Walk(<<>>, 2), 1, Tv).store,
      WalkToDescription(<<>>, 1),
      Walk(<<>>, 2) }

Selections == {"set_category", "set_subcategory"}

InitSelection ==
    /\ sessions \in SelectionStores
    /\ listings = <<>>
    /\ now = 1
    /\ tasks = EmptyBag
    /\ last = Event("init", 0, <<>>)
    /\ calls = [c \in Sellers |-> IdleCall(<<>>)]
    /\ input \in [op : Selections, stored : {sessions},
                  category : QueryNames, subcategory : QueryNames]
    /\ output = <<>>

\* the button is handled; output is the branch the handler took
SelectionPressed ==
    /\ output = <<>>
    /\ LET data == IF input.op = "set_category" THEN cat_payload(input.category)
                   ELSE subcat_payload(input.category, input.subcategory)
           step == handle_callback_query(sessions, 1, data)
       IN /\ sessions' = step.store
          /\ last' = Event(step.op, 1, step.log)
          /\ output' = <<step.op>>
    /\ UNCHANGED <<listings, now, tasks, calls, input>>

NextSelection == SelectionPressed

SpecSelection == InitSelection /\ [][NextSelection]_vars

----------------------------------------------------------------------------
(* Properties *)

HasSession(u) == u \in DOMAIN sessions

\* the stored state of a user, "none" when there is no record
StateOf(u) == IF u \in DOMAIN sessions THEN sessions[u].state ELSE "none"

\* C1: a start command issued while the user has a session record is
\* rejected: the record (state, category, subcategory, product_name,
\* extracted_data) stays as it was, and the user still has exactly that
\* one record.
C1_StartKeepsSession ==
    [][\A u \in Users :
          (PlaseazaAnunt(u) /\ HasSession(u))
              => (u \in DOMAIN sessions' /\ sessions'[u] = sessions[u])]_vars

\* a start command was rejected for a user whose session is past the first state
C1_Witness ==
    /\ last.op = "start_rejected"
    /\ HasSession(last.user)
    /\ sessions[last.user].state = CONFIRMATION

\* C2: the /cancel command and the cancel_listing button, in whichever
\* state the session is, leave the user with no session record.
C2_CancelDeletes ==
    [][\A u \in Users :
          (CancelCommand(u) \/ CallbackQuery(u, CANCEL_LISTING))
              => (u \notin DOMAIN sessions' /\ ~is_session_active(sessions', u))]_vars

\* a cancel removed the record while a coroutine of the user was suspended
C2_Witness ==
    /\ last.op \in {"cancel_command", "cancel_button"}
    /\ last.log = <<"listing_cancelled">>
    /\ ~HasSession(last.user)
    /\ \E t \in BagToSet(tasks) : t.user = last.user

\* the edges of the state diagram, "none" standing for no session record
DiagramEdges ==
    { <<"none", CATEGORY_SELECTION>>,
      <<CATEGORY_SELECTION, SUBCATEGORY_SELECTION>>,
      <<SUBCATEGORY_SELECTION, PRODUCT_INPUT>>,
      <<SUBCATEGORY_SELECTION, CATEGORY_SELECTION>>,
      <<PRODUCT_INPUT, PROCESSING_PRODUCT>>,
      <<PROCESSING_PRODUCT, CONFIRMATION>>,
      <<CONFIRMATION, DESCRIPTION_INPUT>>,
      <<CONFIRMATION, PRODUCT_INPUT>>,
      <<DESCRIPTION_INPUT, PRICE_INPUT>>,
      <<PRICE_INPUT, "none">> }
    \cup { <<st, "none">> : st \in { CATEGORY_SELECTION, SUBCATEGORY_SELECTION,
                                     PRODUCT_INPUT, PROCESSING_PRODUCT, CONFIRMATION,
                                     DESCRIPTION_INPUT, PRICE_INPUT } }

\* C3: every change of a user's stored session state follows an edge of
\* the state diagram (start, forward steps, back, reject, cancel,
\* completion); a button pressed in a state it does not belong to changes
\* nothing.
C3_FollowsDiagram ==
    [][\A u \in Users :
          StateOf(u)' # StateOf(u) => <<StateOf(u), StateOf(u)'>> \in DiagramEdges]_vars

\* a session reached DESCRIPTION_INPUT without any category having been chosen
C3_Witness ==
    /\ last.op = "product_confirmed"
    /\ StateOf(last.user) = DESCRIPTION_INPUT
    /\ "category" \notin DOMAIN sessions[last.user]

\* the listing that a completed price step must have persisted for user u:
\* the price typed, status active, and the data of u's session record
C4_Persisted(u, price) ==
    /\ u \in DOMAIN sessions
    /\ {"category", "subcategory", "product_name", "extracted_data"}
           \subseteq DOMAIN sessions[u]
    /\ "attributes" \in DOMAIN sessions[u].extracted_data
    /\ \E id \in DOMAIN listings' :
          /\ listings'[id].price = price
          /\ listings'[id].status = "active"
          /\ listings'[id].user_id = u
          /\ listings'[id].category = sessions[u].category
          /\ listings'[id].subcategory = sessions[u].subcategory
          /\ listings'[id].product_name = sessions[u].product_name
          /\ listings'[id].attributes = sessions[u].extracted_data.attributes

\* C4: a valid price received by a session in PRICE_INPUT ends with a
\* listing persisted with exactly that price, status "active" and the
\* session's user id, category, subcategory, product name and attributes,
\* and with the user's session record deleted.
C4_PriceCompletes ==
    [][\A t \in BagToSet(tasks) : \A clock \in now..MaxNow :
          PriceResumes(t, clock)
              => (C4_Persisted(t.user, t.price) /\ t.user \notin DOMAIN sessions')]_vars

\* a listing was persisted whose category is not one of the catalog
C4_Witness ==
    /\ last.op = "listing_completed"
    /\ \E id \in DOMAIN listings :
          get_category_by_name(listings[id].category) = <<>>

\* the listings persisted for user u
ListingsOf(u) == {id \in DOMAIN listings : listings[id].user_id = u}

\* C5: a listing is created exactly once per completed session and by no
\* other path: a step that completes a session of a user adds one to the
\* number of that user's persisted listings, and no other step changes
\* that number; so the number of listings of a user equals the number of
\* that user's completed sessions.
C5_OneListingPerCompletion ==
    [][\A u \in Sellers :
          Cardinality(ListingsOf(u))' =
              Cardinality(ListingsOf(u))
                  + (IF last'.op = "listing_completed" /\ last'.user = u
                     THEN 1 ELSE 0)]_vars

\* both sellers completed their session and one listing is all there is
C5_Witness ==
    /\ last.op = "listing_completed"
    /\ sessions = <<>>
    /\ Cardinality(DOMAIN listings) = 1
    /\ now = 1

\* C6: when an extraction completes after the user has cancelled, the
\* user still has no session record: the result is discarded.
C6_NoResurrection ==
    [][\A t \in BagToSet(tasks) : \A outcome \in Outcomes :
          (ExtractionReturns(t, outcome) /\ t.user \notin DOMAIN sessions)
              => t.user \notin DOMAIN sessions']_vars

\* an extraction result is all there is in a session record: no category,
\* no product name, state CONFIRMATION
C6_Witness ==
    /\ last.op \in {"product_data_extracted", "extraction_failed"}
    /\ HasSession(last.user)
    /\ DOMAIN sessions[last.user] = {"state", "extracted_data"}

\* the store shows the call that caller c made for its user
Reflected(c) ==
    LET call == calls[c].returned[1]
    IN IF call.op = "update_user_session"
       THEN c \in DOMAIN sessions /\ sessions[c].state = call.fields.state
       ELSE c \notin DOMAIN sessions

\* C7: every store call is one critical section: when the calls of two
\* callers acting for different users have returned, the store shows the
\* change of each of them.
C7_NoLostUpdate ==
    (\A c \in Sellers : calls[c].pc = "idle" /\ calls[c].returned # <<>>)
        => \A c \in Sellers : Reflected(c)

\* both callers' update_user_session returned and user 1 has no record
C7_Witness ==
    /\ \A c \in Sellers :
          /\ calls[c].pc = "idle" /\ calls[c].returned # <<>>
          /\ calls[c].returned[1].op = "update_user_session"
    /\ 1 \notin DOMAIN sessions

\* C8: reject_product pressed in CONFIRMATION moves the session to
\* PRODUCT_INPUT and leaves no extracted_data in the session record.
C8_RejectDiscards ==
    [][\A u \in Users :
          (CallbackQuery(u, REJECT_PRODUCT) /\ StateOf(u) = CONFIRMATION)
              => /\ StateOf(u)' = PRODUCT_INPUT
                 /\ "extracted_data" \notin DOMAIN sessions'[u]]_vars

\* after a reject the session is in PRODUCT_INPUT and still holds the data
C8_Witness ==
    /\ last.op = "product_rejected"
    /\ StateOf(last.user) = PRODUCT_INPUT
    /\ "extracted_data" \in DOMAIN sessions[last.user]

\* an extraction call for this product name of user u was started by the step
ExtractionStarted(u, product_name) ==
    \E t \in BagToSet(tasks') :
        /\ t.kind = "extract" /\ t.user = u /\ t.product_name = product_name
        /\ CopiesIn(t, tasks') = CopiesIn(t, tasks) + 1

\* C9: after an extraction that failed, the next text of at least three
\* characters from the user starts a new extraction call.
C9_RetryAfterFailure ==
    [][\A u \in Users : \A text \in Texts :
          ( /\ last.op = "extraction_failed" /\ last.user = u
            /\ Len(strip(text)) >= MIN_NAME_LEN
            /\ TextMessage(u, text) )
              => ExtractionStarted(u, strip(text))]_vars

\* a text sent right after a failed extraction was ignored: the session is
\* where the failure left it
C9_Witness ==
    /\ last.op = "text_ignored"
    /\ StateOf(last.user) = CONFIRMATION
    /\ sessions[last.user].extracted_data.success = FALSE
    /\ tasks = EmptyBag

\* C10: in PRODUCT_INPUT a text whose trimmed length is below three is
\* rejected: the session record does not change (state PRODUCT_INPUT, no
\* product_name set by it) and no extraction call is issued.
C10_ShortNameRejected ==
    [][\A u \in Users : \A text \in Texts :
          ( /\ StateOf(u) = PRODUCT_INPUT
            /\ Len(strip(text)) < MIN_NAME_LEN
            /\ TextMessage(u, text) )
              => /\ sessions' = sessions
                 /\ tasks' = tasks
                 /\ last'.log = <<>>]_vars

\* a short name was refused in PRODUCT_INPUT
C10_Witness ==
    /\ last.op = "name_too_short"
    /\ StateOf(last.user) = PRODUCT_INPUT
    /\ "product_name" \notin DOMAIN sessions[last.user]

\* The first run of digits and separators of a text, as its index interval:
\* it starts at the first such character and runs while they continue.
IsPriceChar(c) == c \in Digits \cup {".", ","}

RunStart(text) ==
    IF \E i \in DOMAIN text : IsPriceChar(text[i])
    THEN CHOOSE i \in DOMAIN text :
             /\ IsPriceChar(text[i])
             /\ \A k \in 1..(i - 1) : ~IsPriceChar(text[k])
    ELSE 0

RunEnd(text) ==
    CHOOSE j \in RunStart(text)..Len(text) :
        /\ \A k \in RunStart(text)..j : IsPriceChar(text[k])
        /\ j = Len(text) \/ ~IsPriceChar(text[j + 1])

\* the decimal the run denotes, as <<digits read as an integer, number of
\* digits after the separator>>; <<>> when the run is no decimal
RunDecimal(text) ==
    LET run == RunStart(text)..RunEnd(text)
        seps == {i \in run : text[i] \in {".", ","}}
        digs == run \ seps
        sep == IF seps = {} THEN RunEnd(text) + 1 ELSE CHOOSE i \in seps : TRUE
        weight(i) == Cardinality({k \in digs : k > i})
        sum[D \in SUBSET digs] ==
            IF D = {} THEN 0
            ELSE LET i == CHOOSE i \in D : TRUE
                 IN DigitVal(text[i]) * Pow10(weight(i)) + sum[D \ {i}]
    IN IF Cardinality(seps) > 1 \/ digs = {} THEN <<>>
       ELSE << <<sum[digs], Cardinality({k \in digs : k > sep})>> >>

\* a price <<n, d>> (the fraction n/d) has the value of the text's run, and
\* that value is in (0, 1000000]
IsPriceOf(price, text) ==
    /\ RunStart(text) # 0
    /\ RunDecimal(text) # <<>>
    /\ LET dec == RunDecimal(text)[1]
       IN /\ price[1] * Pow10(dec[2]) = dec[1] * price[2]
          /\ dec[1] > 0
          /\ dec[1] <= 1000000 * Pow10(dec[2])

\* C11: in PRICE_INPUT the price is the first run of digits and separators
\* with comma read as period.  A text with no such run, with a run that is
\* no decimal, or with a value outside (0, 1000000] is refused: the session,
\* the listings and the pending completions stay as they are.  Any other
\* text is accepted with that value, and the listing carries it.  "299.99"
\* gives 299.99, "150,50" gives 150.50; "0", "1000001", "abc" are refused.
C11_PriceParsing ==
    [][\A u \in Users :
          /\ (StateOf(u) = PRICE_INPUT /\ TextMessage(u, input)) =>
                /\ sessions' = sessions /\ listings' = listings
                /\ IF RunStart(input) = 0 \/ RunDecimal(input) = <<>>
                      \/ RunDecimal(input)[1][1] <= 0
                      \/ RunDecimal(input)[1][1] > 1000000 * Pow10(RunDecimal(input)[1][2])
                   THEN tasks' = tasks /\ last'.op = "price_refused"
                   ELSE \E t \in BagToSet(tasks') :
                           /\ tasks' = tasks (+) SetToBag({t})
                           /\ t.kind = "price" /\ t.user = u
                           /\ IsPriceOf(t.price, input)
                /\ input = Chars("299.99") => \E t \in BagToSet(tasks') : t.price = <<29999, 100>>
                /\ input = Chars("150,50") => \E t \in BagToSet(tasks') : t.price = <<1505, 10>>
                /\ input \in {Chars("0"), Chars("1000001"), Chars("abc")} => tasks' = tasks
          /\ \A id \in DOMAIN listings' : IsPriceOf(listings'[id].price, input)]_vars

\* the comma text was accepted and its listing is there
C11_Witness ==
    /\ input = Chars("150,50")
    /\ last.op = "listing_completed"
    /\ \E id \in DOMAIN listings : listings[id].price = <<1505, 10>>

\* C12: in DESCRIPTION_INPUT a text whose trimmed length is between 10
\* and 500 inclusive moves the session to PRICE_INPUT and is stored, trimmed,
\* as extracted_data.listing.description; a shorter or longer text leaves
\* the session record as it is, in DESCRIPTION_INPUT.
C12_DescriptionBounds ==
    [][\A u \in Users :
          (StateOf(u) = DESCRIPTION_INPUT /\ TextMessage(u, input)) =>
              IF Len(strip(input)) >= 10 /\ Len(strip(input)) <= 500
              THEN /\ StateOf(u)' = PRICE_INPUT
                   /\ sessions'[u].extracted_data.listing.description = strip(input)
                   /\ \A k \in DOMAIN sessions[u] \ {"state", "extracted_data"} :
                         sessions'[u][k] = sessions[u][k]
              ELSE sessions' = sessions /\ tasks' = tasks]_vars

\* a padded text of exactly 500 characters was stored without its padding
C12_Witness ==
    /\ Len(input) > 500
    /\ last.op = "description_entered"
    /\ StateOf(1) = PRICE_INPUT
    /\ Len(sessions[1].extracted_data.listing.description) = 500

\* C13: listing ids are unique: a completion saves its listing under an
\* id that no earlier listing has, so no saved listing record is ever
\* overwritten.
C13_UniqueIds ==
    [][/\ \A id \in DOMAIN listings :
             id \in DOMAIN listings' /\ listings'[id] = listings[id]
       /\ last'.op = "listing_completed" =>
             \E id \in DOMAIN listings' : id \notin DOMAIN listings]_vars

\* a seller whose session completed has no listing: it was overwritten
C13_Witness ==
    /\ last.op = "listing_completed"
    /\ \E u \in Sellers :
          /\ u # last.user
          /\ u \notin DOMAIN sessions
          /\ ListingsOf(u) = {}
          /\ ListingsOf(last.user) # {}

\* C14: a session record is created only by the start command: whenever a
\* user who had no record has one after a step, the step was the handling
\* of /plaseaza_anunt.
C14_CreatedByStart ==
    [][\A u \in Users :
          (u \notin DOMAIN sessions /\ u \in DOMAIN sessions')
              => (PlaseazaAnunt(u) /\ last'.op = "session_started")]_vars

\* a record that holds a state and nothing else, written by the description
\* handler when it resumed after the session had been cancelled
C14_Witness ==
    /\ last.op = "price_requested"
    /\ HasSession(last.user)
    /\ DOMAIN sessions[last.user] = {"state"}

\* the session record of u, <<>> when there is none
RecordOf(S, u) == IF u \in DOMAIN S THEN <<S[u]>> ELSE <<>>

\* C15: every transition that changes the state or the data of a user's
\* session (start, category, subcategory, back, product name, extraction
\* stored, confirm, reject, description, completion, cancel) emits an
\* action-log entry for that user.
C15_TransitionsLogged ==
    [][\A u \in Users :
          RecordOf(sessions', u) # RecordOf(sessions, u)
              => (last'.user = u /\ last'.log # <<>>)]_vars

\* an extracted product was confirmed, the state changed, nothing was logged
C15_Witness ==
    /\ last.op = "product_confirmed"
    /\ last.log = <<>>
    /\ StateOf(last.user) = DESCRIPTION_INPUT
    /\ "extracted_data" \in DOMAIN sessions[last.user]
    /\ Get(sessions[last.user].extracted_data, "success", FALSE)

\* C16: when users.json cannot be read or written during start_new_session,
\* set_category, set_subcategory, set_product_name, set_extracted_data or
\* set_description, the operation returns False and the stored sessions are
\* what they were.
C16_StoreFailureReported ==
    (output # <<>> /\ input.op \in Operations
        /\ (~input.readable \/ ~input.writable))
        => (output[1] = FALSE /\ sessions = input.stored)

\* the file could not be read, set_product_name returned True and the
\* sessions of both users were replaced by a record of two fields
C16_Witness ==
    /\ output = <<TRUE>>
    /\ input.op = "set_product_name"
    /\ ~input.readable
    /\ DOMAIN input.stored = {1, 2}
    /\ DOMAIN sessions = {1}
    /\ DOMAIN sessions[1] = {"state", "product_name"}

\* C17: a text sent by a user who has no session record is answered with
\* a message to the user.
C17_NoSessionAnswered ==
    [][\A u \in Users : \A text \in Texts :
          (u \notin DOMAIN sessions /\ TextMessage(u, text))
              => last'.op \notin SilentTextBranches]_vars

\* a price sent after the listing was completed went unanswered
C17_Witness ==
    /\ last.op = "text_no_session"
    /\ ~HasSession(last.user)
    /\ ListingsOf(last.user) # {}
    /\ tasks = EmptyBag

StoredStates ==
    {CATEGORY_SELECTION, SUBCATEGORY_SELECTION, PRODUCT_INPUT, PROCESSING_PRODUCT,
     CONFIRMATION, DESCRIPTION_INPUT, PRICE_INPUT}

\* C18: the state stored in a session record is never COMPLETED and never
\* IDLE: every record has a state, one of the seven states of a running
\* conversation, and a user is idle exactly when there is no record.
C18_StoredStates ==
    \A u \in Users :
        /\ u \in DOMAIN sessions =>
              /\ "state" \in DOMAIN sessions[u]
              /\ sessions[u].state \in StoredStates
              /\ sessions[u].state \notin {IDLE, COMPLETED}
        /\ is_session_active(sessions, u) <=> u \in DOMAIN sessions

\* a listing was completed and the record is gone, not kept as completed
C18_Witness ==
    /\ last.op = "listing_completed"
    /\ ListingsOf(last.user) # {}
    /\ ~HasSession(last.user)
    /\ ~is_session_active(sessions, last.user)

\* C20: for every raw attribute mapping and every list of expected
\* attributes, the validated mapping has every expected name as a key (a
\* mapping has each key once), whatever the raw data holds; an expected
\* name that the data does not have maps to "_Not found_".
C20_ExpectedComplete ==
    output # <<>> =>
        \A i \in DOMAIN input.expected :
            /\ input.expected[i] \in DOMAIN output[1]
            /\ (\A k \in DOMAIN input.data : input.data[k][1] # input.expected[i])
                  => output[1][input.expected[i]] = Str(NOT_FOUND)

\* the list names Brand twice and Model once, the data has neither: both
\* map to the sentinel, next to an attribute that was not asked for
C20_Witness ==
    /\ output # <<>>
    /\ input.expected = <<Brand, Brand>> \/ input.expected = <<Brand, Model>>
    /\ Keys(input.data) = {Extra}
    /\ DOMAIN output[1] = Range(input.expected) \cup {Extra}
    /\ \A a \in Range(input.expected) : output[1][a] = Str(NOT_FOUND)

\* the response reached the code with status 200 and a JSON body
Answered(response) == response.raises = "" /\ response.status = 200

\* the transport outcomes the extraction has to turn into a failure
TransportFailure(response) ==
    \/ response.raises # ""
    \/ response.status # 200
    \/ response.body = ContentTypeError
    \/ response.body \in MisshapenBodies
    \/ response.body \in EmptyChoicesBodies
    \/ response.body \in EmptyContentBodies
    \/ response.body \in {WithContent(Str(Chars(t))) : t \in NonObjectTexts}

\* C19: the extraction call makes exactly one request and raises nothing;
\* for every transport outcome (an exception, a status other than 200, a
\* body that is not JSON, a body of the wrong shape, empty choices, empty
\* content, a content that is JSON but no object) it returns a result with
\* exactly success = FALSE, an error and the product name, the failure the
\* handlers see; for an empty message content the error is "Empty response
\* content from API".  (The error is str(e) for an exception, which is the
\* empty text for a timeout.)
C19_FailureIsStructured ==
    output # <<>> =>
        /\ output[1].requests = 1
        /\ output[1].raised = ""
        /\ TransportFailure(input.response) =>
              /\ DOMAIN output[1].result = {"success", "error", "product_name"}
              /\ output[1].result.success = FALSE
              /\ output[1].result.product_name = input.product_name
              /\ [output[1].result EXCEPT !.error = "error"]
                    = extract_product_attributes(input.product_name, Tv, Lcd,
                                                 input.expected, "failure")
        /\ (Answered(input.response) /\ input.response.body \in EmptyContentBodies) =>
              output[1].result.error = "Empty response content from API"

\* the API answered 200 with an empty list of choices: the IndexError
\* became a failure result
C19_Witness ==
    /\ output # <<>>
    /\ Answered(input.response)
    /\ input.response.body \in EmptyChoicesBodies
    /\ output[1].result = Failure(input.product_name, "IndexError")
    /\ output[1].requests = 1

\* C21: validating a validated mapping again, against the same expected
\* list, gives the same mapping: the same keys in the same order with the
\* same values, which are the ones of the first validation.
C21_Idempotent ==
    Len(output) = 3 =>
        /\ output[3] = output[2]
        /\ {output[2][i][1] : i \in DOMAIN output[2]} = DOMAIN output[1]
        /\ \A i \in DOMAIN output[2] : output[2][i][2] = output[1][output[2][i][1]]

\* a mapping with a cleaned expected value, a sentinel and an attribute
\* that was not asked for has been validated twice
C21_Witness ==
    /\ Len(output) = 3
    /\ input.expected = <<Model, Brand>>
    /\ input.data = << <<Extra, Str(<<" ">>)>>, <<Brand, Str(<<" ", "v", " ">>)>> >>
    /\ output[3] = << <<Model, Str(NOT_FOUND)>>, <<Brand, Str(<<"v">>)>>,
                      <<Extra, Str(<<>>)>> >>

C23_UnknownKept ==
    (output # <<>> /\ input.data = TestData /\ input.expected = TestExpected) =>
        /\ output[1][Brand] = Str(Chars("Apple"))
        /\ output[1][Storage] = Str(Chars("Unknown"))

\* the test's data has been validated: Storage holds the sentinel
C23_Witness ==
    /\ output # <<>>
    /\ input.data = TestData
    /\ input.expected = TestExpected
    /\ output[1][Brand] = Str(Chars("Apple"))
    /\ output[1][Storage] = Str(NOT_FOUND)

\* C24: for every attribute mapping the confidence lies between 0 and 1
\* (0 and 100 hundredths); it is 0 for the empty mapping and 0 for every
\* mapping with at least one item whose values are all "_Not found_".
C24_ConfidenceBounds ==
    output # <<>> =>
        /\ output[1] \in 0..100
        /\ input = <<>> => output[1] = 0
        /\ (\A j \in DOMAIN input : input[j][2] = Str(NOT_FOUND)) => output[1] = 0

\* three items, all of them the sentinel, scored 0; Brand is among them
C24_Witness ==
    /\ output = <<0>>
    /\ Len(input) = 3
    /\ \A j \in DOMAIN input : input[j][2] = Str(NOT_FOUND)
    /\ \E j \in DOMAIN input : input[j][1] = Brand

\* the critical names that a key contains, whatever the case, next to a
\* value other than the sentinel "_Not found_"
CriticalNotSentinel(attributes) ==
    {i \in DOMAIN critical_attrs :
        \E j \in DOMAIN attributes :
            /\ Contains(lower(attributes[j][1]), lower(critical_attrs[i]))
            /\ attributes[j][2] # Str(NOT_FOUND)}

NotSentinel(attributes) ==
    {j \in DOMAIN attributes : attributes[j][2] # Str(NOT_FOUND)}

\* C25 as stated: with at least 2 critical names holding a value other
\* than the sentinel and at least 60% of the values other than the
\* sentinel, the confidence is at least 0.90 and at most 1.0.
C25_FloorOfNonSentinel ==
    (/\ output # <<>>
     /\ Cardinality(CriticalNotSentinel(input)) >= 2
     /\ Cardinality(NotSentinel(input)) * 10 >= Len(input) * 6) =>
        output[1] \in 90..100

\* C25: with at least 2 critical names holding a found value, one that is
\* none of "_Not found_", "Unknown", "N/A" and "", and at least 60% of the
\* values found, the confidence is at least 0.90 and at most 1.0.
C25_FloorOfFound ==
    (/\ output # <<>>
     /\ critical_found(input) >= 2
     /\ found_attrs(input) * 10 >= Len(input) * 6) =>
        output[1] \in 90..100

\* Brand and Model found next to one sentinel: two of three values, base
\* 0.67 plus bonuses, raised to at least 0.90
C25_Witness ==
    /\ output # <<>>
    /\ Len(input) = 3
    /\ critical_found(input) = 2
    /\ found_attrs(input) = 2
    /\ calculate_confidence_unfloored(input) < 90
    /\ output[1] = 90

\* C26: when the content wraps the object {"Brand": "v"} in a fenced block
\* after prose, or has prose before and after the bare object, the
\* extractor parses the object alone: the result is a success whose
\* attributes are the validated attributes of the object, not those of
\* the line-by-line fallback.
C26_JsonIsolated ==
    (output # <<>> /\ input.content \in WrappedTexts) =>
        /\ output[1].exc = ""
        /\ output[1].result.success
        /\ "note" \notin DOMAIN output[1].result
        /\ output[1].result.attributes
               = validate_extracted_data(<< <<Brand, Str(<<"v">>)>> >>, input.expected)

\* DeepSeekAPI was given the fenced content: json.loads failed on the whole
\* content and the fallback took Brand from the line of the object
C26_Witness ==
    /\ output # <<>>
    /\ input.client = "DeepSeekAPI"
    /\ input.content = FencedText
    /\ input.expected = <<Brand>>
    /\ "note" \in DOMAIN output[1].result
    /\ output[1].result.attributes[Brand] = Str(<<"v", "\"", "}">>)

\* C27: for a content that is no JSON and has a line "Brand: Apple", the
\* extraction with Brand among the expected attributes is a success with
\* attributes[Brand] = "Apple", the sentinel for every expected attribute
\* that no line names, and confidence 0.5.
C27_FallbackFindsBrand ==
    (output # <<>> /\ input.content \in BrandLineTexts
        /\ Brand \in Range(input.expected)) =>
        /\ output[1].exc = ""
        /\ output[1].result.success
        /\ output[1].result.attributes[Brand] = Str(Chars("Apple"))
        /\ \A a \in Range(input.expected) \ {Brand} :
               output[1].result.attributes[a] = Str(NOT_FOUND)
        /\ output[1].result.confidence = 50

\* AIModelClient was given the content "Brand: Apple": the extraction
\* failed
C27_Witness ==
    /\ output # <<>>
    /\ input.client = "AIModelClient"
    /\ input.content = BrandLine
    /\ input.expected = <<Brand, Model>>
    /\ output[1].result
           = Failure(LongText, "JSON parse failed and fallback extraction failed")

\* C28: for every category name c and subcategory name s, names with the
\* delimiter "_" included, decoding the payload "cat_" + c gives c and
\* decoding the payload "subcat_" + c + "_" + s gives the pair (c, s).
C28_PayloadRoundTrip ==
    output # <<>> =>
        /\ output[1] = input.category
        /\ output[2] = <<input.category, input.subcategory>>

\* the category "a_" with the subcategory "b": the payload "subcat_a__b"
\* was decoded as ("a", "_b")
C28_Witness ==
    /\ output # <<>>
    /\ input.category = <<"a", "_">>
    /\ input.subcategory = <<"b">>
    /\ output[1] = <<"a", "_">>
    /\ output[2] = << <<"a">>, <<"_", "b">> >>

\* the same name but for the case of its letters
SameName(a, b) ==
    /\ Len(a) = Len(b)
    /\ \A i \in DOMAIN a : LowerChar(a[i]) = LowerChar(b[i])

\* C29: the category lookup gives a category whose whole name is the
\* queried one but for case, and none when the catalog has no such
\* category; the subcategory lookup gives none when the category is not
\* found and otherwise a subcategory of that category named as queried but
\* for case, none when there is no such; the expected attributes are the
\* list of that subcategory in its order, and the empty list when either
\* lookup found nothing; with a catalog that failed to load every lookup
\* finds nothing.
C29_CatalogLookups ==
    output # <<>> =>
        LET found == output[1]
            categories == IF input.readable THEN Catalog ELSE <<>>
        IN /\ IF \E i \in DOMAIN categories :
                     SameName(categories[i].category, input.category)
              THEN /\ Len(found.category) = 1
                   /\ found.category[1] \in Range(categories)
                   /\ SameName(found.category[1].category, input.category)
              ELSE found.category = <<>>
           /\ found.category = <<>> => found.subcategory = <<>>
           /\ found.category # <<>> =>
                 IF \E sub \in Range(found.category[1].subcategories) :
                        SameName(sub.name, input.subcategory)
                 THEN /\ Len(found.subcategory) = 1
                      /\ found.subcategory[1] \in Range(found.category[1].subcategories)
                      /\ SameName(found.subcategory[1].name, input.subcategory)
                 ELSE found.subcategory = <<>>
           /\ found.attributes = IF found.subcategory = <<>> THEN <<>>
                                 ELSE found.subcategory[1].attributes
           /\ ~input.readable =>
                 found = [category |-> <<>>, subcategory |-> <<>>, attributes |-> <<>>]

\* "tv" and "lcd" were looked up in the catalog that names them Tv and Lcd
C29_Witness ==
    /\ output # <<>>
    /\ input.readable
    /\ input.category = lower(Tv)
    /\ input.subcategory = lower(Lcd)
    /\ output[1].category[1].category = Tv
    /\ output[1].subcategory[1].name = Lcd
    /\ output[1].attributes = <<Brand, Model>>

\* text begins with the command, but for the case of its letters
BeginsWith(text, command) ==
    /\ Len(text) >= Len(command)
    /\ SameName(SubSeq(text, 1, Len(command)), command)

\* C30: the handler of a command fires for exactly the messages that begin
\* with the command, whatever the case and whatever follows it; the
\* free-text handler fires for exactly the messages that are not empty
\* after trimming and do not begin with "/"; no message fires the
\* free-text handler together with a command handler, and none fires two
\* command handlers.
C30_Routing ==
    output # <<>> =>
        /\ \A command \in Commands :
               command \in output[1].commands <=> BeginsWith(input, command)
        /\ output[1].text <=>
               (strip(input) # <<>> /\ (input = <<>> \/ input[1] # "/"))
        /\ output[1].text => output[1].commands = {}
        /\ Cardinality(output[1].commands) <= 1

\* "/STATUS" fired the handler of /status alone, not that of /start
C30_Witness ==
    /\ output # <<>>
    /\ input = upper(Chars("/status"))
    /\ output[1] = [commands |-> {Chars("/status")}, text |-> FALSE]

\* the readable files of the directory that belong to the user
OwnFiles(files, user_id) ==
    {files[k] : k \in {i \in 1..Len(files) :
                          files[i].readable /\ files[i].user_id = user_id}}

\* C31: get_user_products(u, limit) returns only listings whose user_id
\* is u, each once, ordered newest-first by creation time, at most limit
\* of them, and they are the most recent ones: as many as the limit and
\* the user's listings allow, none older than a listing left out.
C31_UserProducts ==
    output # <<>> =>
        LET r == output[1]
            own == OwnFiles(input.files, input.user_id)
        IN /\ \A i \in 1..Len(r) : r[i] \in own
           /\ \A i, j \in 1..Len(r) : i < j =>
                  /\ r[i].id # r[j].id
                  /\ ~ str_less(r[i].created_at, r[j].created_at)
           /\ Len(r) <= input.limit
           /\ Len(r) = Min(input.limit, Cardinality(own))
           /\ \A f \in own \ Range(r) : \A i \in 1..Len(r) :
                  ~ str_less(r[i].created_at, f.created_at)

\* of three listings, two of the user with the older one first in the
\* directory, a limit of one returned the newer one alone
C31_Witness ==
    /\ output # <<>>
    /\ Len(input.files) = 3
    /\ input.limit = 1
    /\ input.user_id = 1
    /\ input.files[1].user_id = 1 /\ input.files[1].created_at = <<"1">>
    /\ input.files[2].user_id = 2
    /\ input.files[3].user_id = 1 /\ input.files[3].created_at = <<"1", ".", "5">>
    /\ input.files[1].readable /\ input.files[3].readable
    /\ output[1] = <<input.files[3]>>

\* C32: in PRODUCT_INPUT a text of trimmed length >= 3 first stores the
\* trimmed text as product_name and sets the state to PROCESSING_PRODUCT;
\* an extraction call is issued only by such a step, for the name it
\* stored; when the call returns its result is stored as extracted_data
\* and the state becomes CONFIRMATION; a text that arrives while the state
\* is PROCESSING_PRODUCT starts no extraction and changes nothing.
C32_ExtractionProtocol ==
    [][\A u \in Users :
          /\ \A text \in Texts :
                 (/\ TextMessage(u, text)
                  /\ StateOf(u) = PRODUCT_INPUT
                  /\ Len(strip(text)) >= MIN_NAME_LEN)
                     => /\ sessions'[u].product_name = strip(text)
                        /\ sessions'[u].state = PROCESSING_PRODUCT
          /\ \A t \in BagToSet(tasks') \ BagToSet(tasks) :
                 (t.kind = "extract" /\ t.user = u)
                     => /\ StateOf(u) = PRODUCT_INPUT
                        /\ sessions'[u].product_name = t.product_name
                        /\ sessions'[u].state = PROCESSING_PRODUCT
          /\ \A t \in BagToSet(tasks), outcome \in Outcomes :
                 (t.user = u /\ ExtractionReturns(t, outcome))
                     => /\ sessions'[u].state = CONFIRMATION
                        /\ sessions'[u].extracted_data =
                               extract_product_attributes(t.product_name,
                                   t.category, t.subcategory,
                                   get_expected_attributes(t.category, t.subcategory),
                                   outcome)
          /\ \A text \in Texts :
                 (TextMessage(u, text) /\ StateOf(u) = PROCESSING_PRODUCT)
                     => tasks' = tasks /\ sessions' = sessions]_vars

\* a text sent during the extraction of the stored product name was ignored
C32_Witness ==
    /\ last.op = "text_ignored"
    /\ StateOf(last.user) = PROCESSING_PRODUCT
    /\ \E t \in BagToSet(tasks) :
           /\ t.kind = "extract"
           /\ t.user = last.user
           /\ t.product_name = sessions[last.user].product_name

\* C33: a session never stays in PROCESSING_PRODUCT forever: when the
\* extraction call and the handler are treated fairly, every session that
\* enters PROCESSING_PRODUCT eventually reaches CONFIRMATION or is deleted,
\* also when sending the progress message or reading the session's
\* category fails.
C33_ProcessingEnds ==
    \A u \in Users :
        (StateOf(u) = PROCESSING_PRODUCT)
            ~> (StateOf(u) = CONFIRMATION \/ ~ HasSession(u))

\* the handler ended in its except branch after the name was stored: the
\* session is in PROCESSING_PRODUCT and no extraction is in flight
C33_Witness ==
    /\ last.op \in {"await_raised", "product_name_error"}
    /\ StateOf(last.user) = PROCESSING_PRODUCT
    /\ tasks = EmptyBag

\* the success flag of the extraction result the user's session holds
HeldSuccess(u) ==
    /\ HasSession(u)
    /\ Get(Get(sessions[u], "extracted_data", EmptyDict), "success", FALSE) = TRUE

\* C34: every persisted listing comes from a session that held a
\* successful extraction: whatever the events before (stale confirm_product
\* or other buttons pressed out of order, a failed extraction followed by
\* confirm), the step that persists a listing finds success = true in the
\* extracted_data of the session it completes.
C34_FromSuccessfulExtraction ==
    [][\A t \in BagToSet(tasks), clock \in now..MaxNow :
          (PriceResumes(t, clock) /\ listings' # listings) => HeldSuccess(t.user)]_vars

\* a price was accepted for a session whose extraction had failed
C34_Witness ==
    /\ \E t \in BagToSet(tasks) :
           /\ t.kind = "price"
           /\ HasSession(t.user)
           /\ StateOf(t.user) = PRICE_INPUT
           /\ "extracted_data" \in DOMAIN sessions[t.user]
           /\ "success" \in DOMAIN sessions[t.user].extracted_data
           /\ ~ sessions[t.user].extracted_data.success

\* C35: whenever a session is in CONFIRMATION, DESCRIPTION_INPUT or
\* PRICE_INPUT, its extracted_data was produced for the session's current
\* product_name (extracted_data.product_name = session.product_name),
\* whatever the interleaving of the extractions in flight with reject,
\* cancel and restart.
C35_DataOfCurrentName ==
    \A u \in Users :
        StateOf(u) \in {CONFIRMATION, DESCRIPTION_INPUT, PRICE_INPUT} =>
            /\ {"extracted_data", "product_name"} \subseteq DOMAIN sessions[u]
            /\ "product_name" \in DOMAIN sessions[u].extracted_data
            /\ sessions[u].extracted_data.product_name = sessions[u].product_name

\* the result of the call for an earlier name arrived after the seller had
\* sent another name: the session is in CONFIRMATION with the new name and
\* the old name's data
C35_Witness ==
    \E u \in Users :
        /\ last.op = "product_data_extracted"
        /\ StateOf(u) = CONFIRMATION
        /\ {"extracted_data", "product_name", "category", "subcategory"}
               \subseteq DOMAIN sessions[u]
        /\ sessions[u].extracted_data.success
        /\ sessions[u].extracted_data.product_name # sessions[u].product_name

\* C36: every operation performed on behalf of a user (start, selections,
\* text input, cancel, completion, and the handler steps that follow an
\* await), its store calls executed one at a time, leaves the session
\* record of every other user unchanged: the other user has a record
\* after the step exactly when it had one before, and it is the same.
C36_OtherUsersUntouched ==
    [][\A b \in Sellers :
          last'.user # b =>
              /\ (b \in DOMAIN sessions') <=> (b \in DOMAIN sessions)
              /\ b \in DOMAIN sessions => sessions'[b] = sessions[b]]_vars

\* user 1 went from the start command to a persisted listing, and the
\* record of user 2 is still the one at the price prompt
C36_Witness ==
    /\ last.op = "listing_completed"
    /\ last.user = 1
    /\ \E id \in DOMAIN listings : listings[id].user_id = 1
    /\ 1 \notin DOMAIN sessions
    /\ sessions = Walk(<<>>, 2)

\* C37: a failed read of the session store during update_user_session for
\* user 1 does not destroy the sessions of the other users: after the
\* operation every other user's stored session is still there, as it was.
C37_FailedReadKeepsOthers ==
    (output # <<>> /\ ~ input.readable)
        => \A b \in DOMAIN input.stored \ {1} :
               b \in DOMAIN sessions /\ sessions[b] = input.stored[b]

\* the file could not be read when start_new_session ran for user 1: the
\* store written afterwards holds the new record of user 1 and nothing of
\* the session user 2 had at the price prompt
C37_Witness ==
    /\ output # <<>>
    /\ input.op = "start_new_session"
    /\ ~ input.readable
    /\ input.writable
    /\ input.stored = Walk(<<>>, 2)
    /\ sessions = start_new_session(<<>>, 1).store

\* the value of an additional attribute as it is kept: a str is trimmed
Trimmed(value) == IF value.type = "str" THEN Str(strip(value.chars)) ELSE value

\* the values recorded before the i-th entry of data is looked at: those of
\* the expected attributes and those of the earlier entries that were kept
RecordedBefore(validated, data, expected_attributes, i) ==
    {validated[a] : a \in Range(expected_attributes)}
        \cup {validated[data[j][1]] :
                 j \in {k \in 1..(i - 1) : data[k][1] \in DOMAIN validated}}

\* C39: in the validated mapping every additional (non-expected) attribute
\* of the raw data is kept under its own key unless its value duplicates a
\* value already recorded under another key: an additional attribute with
\* a fresh value, string or not, is in the mapping with that value, and
\* one whose value is not the sentinel and equals a recorded value is not.
C39_ExtrasKept ==
    (Len(output) = 1) =>
        LET validated == output[1]
        IN \A i \in DOMAIN input.data :
               LET key == input.data[i][1]
                   value == Trimmed(input.data[i][2])
                   recorded == RecordedBefore(validated, input.data, input.expected, i)
               IN key \notin Range(input.expected) =>
                      /\ value \notin recorded
                             => (key \in DOMAIN validated /\ validated[key] = value)
                      /\ (value \in recorded /\ value # Str(NOT_FOUND))
                             => key \notin DOMAIN validated

\* the model returned the number 1 under a key that was not asked for,
\* no other attribute has that value, and the validated mapping lacks the key
C39_Witness ==
    /\ Len(output) = 1
    /\ \E i \in DOMAIN input.data :
           /\ input.data[i] = <<Extra, Number(1)>>
           /\ \A j \in DOMAIN input.data : j # i => input.data[j][2] # Number(1)
    /\ Extra \notin DOMAIN output[1]

\* the stored session of the user holds no extracted data
NoExtractedData(S, u) ==
    \/ u \notin DOMAIN S
    \/ DOMAIN Get(S[u], "extracted_data", EmptyDict) = {}

\* C38: if persisting the listing fails in complete_listing (save_product
\* returns no id), or the session has no extracted data, then
\* complete_listing returns None, no listing exists for that attempt, no
\* listing_completed entry is logged, and the session record is left as
\* it was, so that the user can send the price again.
C38_FailedCompletion ==
    (output # <<>> /\ (~ input.saved \/ NoExtractedData(input.stored, 1)))
        => /\ output[1] = 0
           /\ listings = input.listings
           /\ "listing_completed" \notin Range(last.log)
           /\ sessions = input.stored

\* the listing of a seller at the price prompt could not be written:
\* complete_listing returned None and the session is still at the price
\* prompt, next to the session of the other seller
C38_Witness ==
    /\ output = <<0>>
    /\ ~ input.saved
    /\ input.stored = Walk(Walk(<<>>, 1), 2)
    /\ sessions = input.stored
    /\ StateOf(1) = PRICE_INPUT
    /\ listings = input.listings

\* the catalog has a category of that name, but for the case of its letters
IsCategory(name) == \E i \in DOMAIN Catalog : SameName(Catalog[i].category, name)

\* the catalog category of the first name has a subcategory of the second
IsSubcategoryOf(category, name) ==
    \E i \in DOMAIN Catalog :
        /\ SameName(Catalog[i].category, category)
        /\ \E j \in DOMAIN Catalog[i].subcategories :
               SameName(Catalog[i].subcategories[j].name, name)

\* C40: set_category with a name that matches no catalog category returns
\* False and leaves the session store unchanged; set_subcategory returns
\* False and leaves the store unchanged when the user has no session, the
\* session has no category, or the name is not a subcategory of the
\* session's stored category; the category named in the button payload
\* plays no part: a subcategory of the stored category is accepted under
\* whatever category the payload names.
C40_SelectionRefused ==
    output # <<>> =>
        /\ (input.op = "set_category" /\ ~ IsCategory(input.category))
               => (output[1] = "category_refused" /\ sessions = input.stored)
        /\ input.op = "set_subcategory" =>
               LET refused ==
                       \/ 1 \notin DOMAIN input.stored
                       \/ "category" \notin DOMAIN input.stored[1]
                       \/ ~ IsSubcategoryOf(input.stored[1].category, input.subcategory)
               IN /\ refused => (output[1] = "subcategory_refused"
                                 /\ sessions = input.stored)
                  /\ ~ refused => output[1] = "subcategory_selected"

\* the session holds the category Tv and the button names the subcategory
\* Mac under the category Pc: Mac is a subcategory of the payload's
\* category and not of the stored one, and the button was refused
C40_Witness ==
    /\ output = <<"subcategory_refused">>
    /\ input.op = "set_subcategory"
    /\ 1 \in DOMAIN input.stored
    /\ "category" \in DOMAIN input.stored[1]
    /\ input.stored[1].category = Tv
    /\ input.category = Pc
    /\ input.subcategory = Mac
    /\ sessions = input.stored

====
